---- MODULE Spec2Model ----
(***************************************************************************)
(* A model of eBook CoverInjektor: the cover search aggregator and the     *)
(* thumbnail downloads (cover_fetcher.py), the cover compositor, document  *)
(* merger and export helper (pdf_processor.py), the image generator        *)
(* (ai_cover_generator.py), the device detection (device_detector.py), the *)
(* configuration loaders (gui.py, main.py), and the window's handlers,     *)
(* worker threads, batch run and destination lookup (gui.py).  Text is     *)
(* modelled as sequences of one-character strings, a document as the       *)
(* sequence of its pages, and the floating-point products the code         *)
(* computes as IEEE-754 doubles.                                           *)
(***************************************************************************)
EXTENDS Integers, Sequences, FiniteSets, TLC

VARIABLES
    \* ---- fetch_covers (cover_fetcher.py) ----
    fpc,            \* position inside fetch_covers
    fFilename,      \* the filename argument
    fMaxResults,    \* the max_results argument
    fQuery,         \* the derived query
    googleResp,     \* what the Google Books request met
    olResp,         \* what the Open Library request met
    googleResults,  \* google_results
    olResults,      \* ol_results
    fReturn,        \* the list fetch_covers returned
    fError,         \* the exception that escaped fetch_covers, or "none"
    \* ---- create_cover_page (pdf_processor.py) ----
    cImage,         \* cover_image.size of the last call, <<img_w, img_h>>
    cPageSize,      \* the page_size argument of the last call
    cPage,          \* the page the last call drew, NoPage before the first
    \* ---- inject_cover (pdf_processor.py) ----
    ifs,            \* the filesystem: path -> file
    idirs,          \* the directories that exist
    ifs0,           \* the filesystem when inject_cover was called
    idirs0,         \* the directories when inject_cover was called
    ipc,            \* position inside inject_cover
    iArgs,          \* the arguments of the call
    iWriter,        \* writer: the pages and metadata assembled for output
    iTmp,           \* tmp_path, NoPath before mkstemp
    iFailedAt,      \* the step that failed, "none" if none did
    iError,         \* the exception that escaped inject_cover, or "none"
    \* ---- export_pdf (pdf_processor.py) ----
    eSource,        \* the file at source_path
    eDestIsDir,     \* os.path.isdir(destination_dir)
    eFree,          \* shutil.disk_usage(destination_dir).free, in bytes
    eWritable,      \* os.access(destination_dir, os.W_OK)
    eDest,          \* the destination directory's contents: name -> file
    eDest0,         \* its contents when export_pdf was called
    eFilename,      \* the filename argument, "" for None
    epc,            \* position inside export_pdf
    eError,         \* the exception that escaped export_pdf, or "none"
    \* ---- download_thumbnails (cover_fetcher.py) ----
    tpc,            \* position of the calling thread inside download_thumbnails
    tOutcome,       \* per candidate: what its download and resize will meet
    tWorkers,       \* the max_workers argument
    tStatus,        \* per candidate: the state of its _fetch task
    tSlot,          \* per candidate: its thumbnail_image, "unset" for None
    tWriters,       \* per candidate: the tasks that assigned its thumbnail_image
    tCollected,     \* the futures as_completed has yielded
    tOrder,         \* the tasks in the order they completed
    tError,         \* the exception that escaped download_thumbnails, or "none"
    \* ---- Process & Export (gui.py) ----
    bpc,            \* position of the run: the click, the worker's loop, the summary
    bPaths,         \* self.pdf_paths
    bBatch,         \* the documents in self.pdf_paths when Process was clicked
    bCover,         \* self.selected_cover_image
    bDestOk,        \* _resolve_destination() gave a directory
    bIndex,         \* how many documents the worker's for loop has taken
    bDone,          \* the documents taken so far, each with what it met
    bExported,      \* exported
    bErrors,        \* errors
    bDest,          \* the destination directory: base name -> what was delivered
    bShown,         \* the lists handed to _show_summary, NoSummary before
    bCleared,       \* Clear emptied the list the worker was iterating
    bWork,          \* the list object the worker's for loop iterates
    bShared,        \* self.pdf_paths still names that list object
    bClickCover,    \* self.selected_cover_image when Process was clicked
    bTotal,         \* self.progress["maximum"]
    bProgress,      \* self.progress["value"]
    \* ---- _resolve_destination (gui.py) ----
    rpc,            \* "idle" before the call, "done" after it
    rRaw,           \* self.dest_var.get(), the token in the destination box
    rDevices,       \* self.detected_devices
    rDirs,          \* the directories that exist
    rResult,        \* what _resolve_destination returned
    \* ---- the UI thread and its workers (gui.py) ----
    uClicks,        \* user events handled so far
    uWorkers,       \* worker threads started and not yet ended, per kind
    uEvents,        \* callbacks posted with root.after(0, ...), oldest first
    uIo,            \* the I/O done so far: which operation, on which thread
    \* ---- search, thumbnails, selection (gui.py, cover_fetcher.py) ----
    ppc,            \* position of the search: its worker, the grid shown
    pAnswer,        \* what the two backends will answer: one entry per item
    pResults,       \* results: the candidates fetch_covers returned
    pThumbs,        \* per candidate: "todo", or how its thumbnail download ended
    pCoverResults,  \* self.cover_results
    pSelected,      \* the candidates the user has clicked
    pFull,          \* the candidates whose _fetch_full thread is running
    pRequests,      \* the image requests made: URL, purpose, selection at that time
    pFullOk,        \* per candidate, whether download_image(full_url) succeeds
    pIndex,         \* self.selected_cover_index, 0 for None
    pImage,         \* self.selected_cover_image: whose full image, 0 for None
    \* ---- generate_cover (ai_cover_generator.py) ----
    apc,            \* position inside generate_cover
    aKeys,          \* what is at api_keys_path
    aModel,         \* the model argument
    aResp,          \* what the generation request will meet
    aAsset,         \* what the download of the generated image will meet
    aRequests,      \* the HTTP requests made so far
    aPayload,       \* the members of the JSON payload posted
    aReturn,        \* what generate_cover returned, "none" if nothing
    aError,         \* the exception that escaped generate_cover, or "none"
    \* ---- _sanitise_query (cover_fetcher.py) ----
    qpc,            \* "idle" before the call, "done" after it
    qFilename,      \* the filename argument
    qQuery,         \* the query returned, which fills the search box
    qSearched,      \* the query fetch_covers derives from the search box
    \* ---- detect_ereaders (device_detector.py) ----
    dpc,            \* position of the call, "off" when never called
    dSystem,        \* platform.system()
    dMedia,         \* /media and the directories under it
    dMnt,           \* /mnt
    dVolumes,       \* /Volumes
    dDrives,        \* the Windows logical disks
    dWmic,          \* whether the wmic subprocess runs
    dRoots,         \* search_roots, or the parsed lines on Windows
    dDevices,       \* the returned list
    dError,         \* the exception that left detect_ereaders
    \* ---- _load_config (gui.py, main.py) ----
    kpc,            \* "idle" before the call, then "returned" or "raised"
    kLoader,        \* which of the two loaders is called
    kFile,          \* what is at the configuration path
    kConfig,        \* the dictionary defaults
    kError,         \* the exception that left _load_config
    \* ---- AI cover generation (gui.py) ----
    gPrompt,        \* the text of the prompt box
    gButton,        \* state of ai_generate_btn
    gSpinner,       \* ai_spinner is running
    gRuns,          \* generations started so far
    gWorker,        \* per generation, where its worker thread is
    gEvents,        \* callbacks posted with root.after(0, ...), oldest first
    gHandled,       \* the handlers that ran, each with its generation
    gCallbackErrors, \* generations whose posted callback raised
    gWarned,        \* the empty-prompt warning was shown
    \* ---- cover searches (gui.py) ----
    sQuery,         \* the text of the search box
    sRuns,          \* searches started so far
    sWorker,        \* per search, where its worker thread is or how it ended
    sEvents,        \* callbacks posted with root.after(0, ...), oldest first
    sCoverResults,  \* self.cover_results: the search whose results it holds
    sGrid,          \* the search whose thumbnails the grid shows, 0 if empty
    sLoading,       \* the loading overlay is shown
    sWarned         \* the empty-query warning was shown

fetchVars == <<fpc, fFilename, fMaxResults, fQuery, googleResp, olResp,
               googleResults, olResults, fReturn, fError>>

coverVars == <<cImage, cPageSize, cPage>>

injectVars == <<ifs, idirs, ifs0, idirs0, ipc, iArgs, iWriter, iTmp, iFailedAt, iError>>

exportVars == <<eSource, eDestIsDir, eFree, eWritable, eDest, eDest0, eFilename, epc, eError>>

thumbVars == <<tpc, tOutcome, tWorkers, tStatus, tSlot, tWriters, tCollected, tOrder, tError>>

batchVars == <<bpc, bPaths, bBatch, bCover, bDestOk, bIndex, bDone, bExported, bErrors,
               bDest, bShown, bCleared, bWork, bShared, bClickCover, bTotal,
               bProgress>>

resolveVars == <<rpc, rRaw, rDevices, rDirs, rResult>>

uiVars == <<uClicks, uWorkers, uEvents, uIo>>

pickVars == <<ppc, pAnswer, pResults, pThumbs, pCoverResults, pSelected, pFull,
              pRequests, pFullOk, pIndex, pImage>>

genVars == <<apc, aKeys, aModel, aResp, aAsset, aRequests, aPayload, aReturn, aError>>

queryVars == <<qpc, qFilename, qQuery, qSearched>>

detectVars == <<dpc, dSystem, dMedia, dMnt, dVolumes, dDrives, dWmic, dRoots,
                dDevices, dError>>

configVars == <<kpc, kLoader, kFile, kConfig, kError>>

aiVars == <<gPrompt, gButton, gSpinner, gRuns, gWorker, gEvents, gHandled,
            gCallbackErrors, gWarned>>

searchVars == <<sQuery, sRuns, sWorker, sEvents, sCoverResults, sGrid, sLoading,
                sWarned>>

vars == <<fetchVars, coverVars, injectVars, exportVars, thumbVars, batchVars,
          resolveVars, uiVars, pickVars, genVars, queryVars, detectVars,
          configVars, aiVars, searchVars>>

(***************************************************************************)
(* Bounds                                                                  *)
(***************************************************************************)
MaxItems == 2       \* items in one backend's JSON response
MaxRes == 2         \* largest max_results argument tried
MaxImgDim == 6      \* small image widths and heights run over 1..MaxImgDim
MaxPages == 3       \* pages of a source document
MaxSize == 50       \* largest source file size, in bytes
MaxFree == 56       \* largest free space of the destination, in bytes
MaxCands == 3       \* candidates handed to download_thumbnails
MaxWorkers == 2     \* largest max_workers argument tried
MaxBatch == 3       \* documents selected for one run of Process & Export
MaxDevices == 2     \* detected devices
MaxTokenLen == 2    \* arbitrary destination tokens run up to this length
MaxClicks == 3      \* user events in one session
MaxNameLen == 4     \* longest filename handed to _sanitise_query on its own
MaxUsers == 2       \* directories under /media
MaxVolumes == 1     \* entries of one listed directory
MaxMembers == 2     \* members of the JSON value in the configuration file
MaxCovers == 2      \* images that can be the selected cover
MaxRuns == 3        \* AI generations started in one session
MaxSearches == 3    \* cover searches started in one session

(***************************************************************************)
(* Generic helpers                                                         *)
(***************************************************************************)
Min(a, b) == IF a <= b THEN a ELSE b
Max(a, b) == IF a >= b THEN a ELSE b

SeqsUpTo(S, n) == UNION {[1..k -> S] : k \in 0..n}

\* Python's seq[:k] for any integer k.
PySlicePrefix(s, k) ==
    IF k >= 0 THEN SubSeq(s, 1, Min(k, Len(s)))
    ELSE SubSeq(s, 1, Max(0, Len(s) + k))

(***************************************************************************)
(* Text: str.lower, str.strip, str.replace, Path.stem, re.sub              *)
(***************************************************************************)
IsSpace(c) == c = " "

LowerChar(c) ==
    CASE c = "A" -> "a"
      [] c = "B" -> "b"
      [] c = "U" -> "u"
      [] OTHER -> c

Lower(s) == [i \in 1..Len(s) |-> LowerChar(s[i])]

RECURSIVE LStrip(_)
LStrip(s) == IF s # <<>> /\ IsSpace(Head(s)) THEN LStrip(Tail(s)) ELSE s

RECURSIVE RStrip(_)
RStrip(s) ==
    IF s # <<>> /\ IsSpace(s[Len(s)]) THEN RStrip(SubSeq(s, 1, Len(s) - 1)) ELSE s

Strip(s) == RStrip(LStrip(s))

\* Path(filename).stem for a name without directory separators: the name up to
\* its last dot, unless that dot is the first or the last character; the path
\* "." has no name.
LastDot(s) ==
    LET ds == {i \in 1..Len(s) : s[i] = "."}
    IN  IF ds = {} THEN 0 ELSE CHOOSE i \in ds : \A j \in ds : j <= i

Stem(s) ==
    LET i == LastDot(s)
    IN  IF s = <<".">> THEN <<>>
        ELSE IF 1 < i /\ i < Len(s) THEN SubSeq(s, 1, i - 1) ELSE s

ReplaceSeparators(s) ==
    [i \in 1..Len(s) |-> IF s[i] \in {"_", "-"} THEN " " ELSE s[i]]

IsOpener(c) == c \in {"(", "["}
IsCloser(c) == c \in {")", "]"}

\* Index of the first closer of s at or after position i, 0 if there is none.
RECURSIVE FirstCloser(_, _)
FirstCloser(s, i) ==
    IF i > Len(s) THEN 0
    ELSE IF IsCloser(s[i]) THEN i
    ELSE FirstCloser(s, i + 1)

\* re.sub(r"[\(\[][^)\]]*[\)\]]", "", name): leftmost non-overlapping matches,
\* each from an opener to the first closer after it.
RECURSIVE RemoveAnnotations(_)
RemoveAnnotations(s) ==
    IF s = <<>> THEN <<>>
    ELSE IF IsOpener(Head(s)) /\ FirstCloser(s, 2) # 0
         THEN RemoveAnnotations(SubSeq(s, FirstCloser(s, 2) + 1, Len(s)))
         ELSE <<Head(s)>> \o RemoveAnnotations(Tail(s))

\* Length of the run of whitespace that starts s.
RECURSIVE SpaceRun(_)
SpaceRun(s) == IF s # <<>> /\ IsSpace(Head(s)) THEN 1 + SpaceRun(Tail(s)) ELSE 0

\* re.sub(r"\s{2,}", " ", name)
RECURSIVE CollapseSpaces(_)
CollapseSpaces(s) ==
    IF s = <<>> THEN <<>>
    ELSE IF SpaceRun(s) >= 2
         THEN <<" ">> \o CollapseSpaces(SubSeq(s, SpaceRun(s) + 1, Len(s)))
         ELSE <<Head(s)>> \o CollapseSpaces(Tail(s))

_sanitise_query(filename) ==
    Strip(CollapseSpaces(RemoveAnnotations(ReplaceSeparators(Stem(filename)))))

(***************************************************************************)
(* Exact rationals [n, d], d > 0, in lowest terms: the quotients and       *)
(* products of create_cover_page                                           *)
(***************************************************************************)
Abs(a) == IF a < 0 THEN 0 - a ELSE a

RECURSIVE Gcd(_, _)
Gcd(a, b) == IF b = 0 THEN a ELSE Gcd(b, a % b)

Rat(n, d) ==
    LET g == Gcd(Abs(n), d)
    IN  [n |-> n \div g, d |-> d \div g]

RInt(k) == Rat(k, 1)
RMul(a, b) == Rat(a.n * b.n, a.d * b.d)
RDiv(a, b) == Rat(a.n * b.d, a.d * b.n)      \* b > 0
RSub(a, b) == Rat(a.n * b.d - b.n * a.d, a.d * b.d)
RAdd(a, b) == Rat(a.n * b.d + b.n * a.d, a.d * b.d)
RLt(a, b) == a.n * b.d < b.n * a.d
RLe(a, b) == a.n * b.d <= b.n * a.d

(***************************************************************************)
(* pdf_processor.py: PAGE_SIZES, _get_page_size, create_cover_page         *)
(***************************************************************************)
\* ReportLab's A4 is 210 mm by 297 mm and LETTER 8.5 in by 11 in; both are
\* given here in tenths of a millimetre (one unit is 72/254 point).
A4 == <<2100, 2970>>
LETTER == <<2159, 2794>>

PageSizeNames == {"A4", "LETTER", "letter", "B5"}

Upper(name) ==
    CASE name = "letter" -> "LETTER"
      [] name = "a4" -> "A4"
      [] OTHER -> name

\* PAGE_SIZES.get(name.upper(), A4)
_get_page_size(name) ==
    CASE Upper(name) = "A4" -> A4
      [] Upper(name) = "LETTER" -> LETTER
      [] OTHER -> A4

\* Variants: always fit to width; fit to width when the image is narrower.
FitsWidthAlways(aspect, page_aspect) == TRUE
FitsWidthFlipped(aspect, page_aspect) == RLt(aspect, page_aspect)

\* Line 71: fit to width when the image is relatively wider than the page.
FitsWidth(aspect, page_aspect) == RLt(page_aspect, aspect)

\* Lines 63-89: the rectangle (x, y, draw_w, draw_h) handed to drawImage on a
\* page of (width, height).
create_cover_page(img_w, img_h, page_size) ==
    LET width == RInt(_get_page_size(page_size)[1])
        height == RInt(_get_page_size(page_size)[2])
        aspect == RDiv(RInt(img_w), RInt(img_h))
        page_aspect == RDiv(width, height)
        draw_w == IF FitsWidth(aspect, page_aspect) THEN width ELSE RMul(height, aspect)
        draw_h == IF FitsWidth(aspect, page_aspect) THEN RDiv(width, aspect) ELSE height
    IN  [kind |-> "cover", width |-> width, height |-> height,
         x |-> RDiv(RSub(width, draw_w), RInt(2)),
         y |-> RDiv(RSub(height, draw_h), RInt(2)),
         draw_w |-> draw_w, draw_h |-> draw_h]

NoPage == [kind |-> "none"]

ImageDims == (1..MaxImgDim) \cup {1200, 1600}

CoverIdle == cImage = <<0, 0>> /\ cPageSize = "" /\ cPage = NoPage

\* One call of create_cover_page on any image and page size name.
CreateCoverPage ==
    \E w \in ImageDims, h \in ImageDims, ps \in PageSizeNames :
        /\ cImage' = <<w, h>>
        /\ cPageSize' = ps
        /\ cPage' = create_cover_page(w, h, ps)


(***************************************************************************)
(* pdf_processor.py: inject_cover                                          *)
(***************************************************************************)
\* A path is <<directory, file name>>.  "tmp.pdf" stands for the fresh name
\* mkstemp(suffix=".pdf") picks; no caller passes it.
SourcePath == <<"books", "book.pdf">>
OutputPaths == {<<"books", "book.pdf">>, <<"books", "new.pdf">>, <<"out", "new.pdf">>}
TmpName == "tmp.pdf"
Paths == {"books", "out"} \X {"book.pdf", "new.pdf", TmpName}
NoPath == <<"", "">>
Dir(path) == path[1]

\* A file: its pages and metadata; complete is FALSE for a truncated or
\* otherwise unreadable document.
NoFile == [exists |-> FALSE, pages |-> <<>>, meta |-> "none", complete |-> FALSE]
Document(pages, meta) == [exists |-> TRUE, pages |-> pages, meta |-> meta, complete |-> TRUE]
Truncated(pages) == [exists |-> TRUE, pages |-> pages, meta |-> "none", complete |-> FALSE]

OrigPages(n) == [i \in 1..n |-> [kind |-> "orig", n |-> i]]
OldDocument == Document(<<[kind |-> "old", n |-> 1]>>, "none")

IsFile(fs, path) == path \in DOMAIN fs /\ fs[path].exists

\* A variant that drops the first page of a one-page source too.
StartPageAlways(remove_first_page, n) == IF remove_first_page THEN 1 ELSE 0

\* Line 230.
StartPage(remove_first_page, n) == IF remove_first_page /\ n > 1 THEN 1 ELSE 0

\* original_reader.pages[start_page:]
PagesFrom(pages, start) == SubSeq(pages, start + 1, Len(pages))

\* Lines 223-239: the cover reader's pages, then the original's pages from
\* start_page on, with the original's metadata.
MergeDocument(cover, original, remove_first_page) ==
    Document(<<cover>> \o PagesFrom(original.pages,
                                    StartPage(remove_first_page, Len(original.pages))),
             original.meta)

\* A variant that leaves the temporary file behind.
CleanupTmpLeak(fs, tmp) == fs

\* Lines 250-254: os.unlink(tmp_path) if it exists.
CleanupTmp(fs, tmp) == IF IsFile(fs, tmp) THEN [fs EXCEPT ![tmp] = NoFile] ELSE fs

\* os.rename(from, to): replaces the file at `to` in one step.
MoveFile(fs, from, to) ==
    IF from = to THEN fs ELSE [fs EXCEPT ![to] = fs[from], ![from] = NoFile]

\* shutil.copy2(from, to), the fallback of shutil.move when os.rename raises
\* OSError: `to` is opened for writing, which empties it, and then filled;
\* written is the number of pages that reached it, all of them unless an
\* error stopped the copy.
CopyFile(fs, from, to, written) ==
    IF written = Len(fs[from].pages) THEN [fs EXCEPT ![to] = fs[from]]
    ELSE [fs EXCEPT ![to] = Truncated(SubSeq(fs[from].pages, 1, written))]

InjectImages == {<<1200, 1600>>, <<1600, 1200>>}
InjectPageSizes == {"A4", "LETTER"}

\* The source may be missing, unreadable, or a document of 0..MaxPages pages;
\* the output directory may be missing, and a file may already be at out/new.pdf.
SourceFiles ==
    {NoFile, Truncated(OrigPages(1))}
    \cup {Document(OrigPages(n), m) : n \in 0..MaxPages, m \in {"none", "meta"}}

InjectInit ==
    /\ \E src \in SourceFiles, outDir \in BOOLEAN, old \in BOOLEAN :
        /\ old => outDir
        /\ idirs = IF outDir THEN {"books", "out"} ELSE {"books"}
        /\ ifs = [p \in Paths |->
                    IF p = SourcePath THEN src
                    ELSE IF p = <<"out", "new.pdf">> /\ old THEN OldDocument
                    ELSE NoFile]
    /\ ifs0 = ifs /\ idirs0 = idirs
    /\ ipc = "idle"
    /\ iArgs = [pdf_path |-> NoPath, output_path |-> NoPath, remove_first_page |-> FALSE,
                cover_image |-> <<0, 0>>, page_size |-> ""]
    /\ iWriter = NoFile
    /\ iTmp = NoPath
    /\ iFailedAt = "none"
    /\ iError = "none"

InjectIdle ==
    /\ idirs = {} /\ ifs = [p \in Paths |-> NoFile]
    /\ ifs0 = ifs /\ idirs0 = idirs
    /\ ipc = "off"
    /\ iArgs = [pdf_path |-> NoPath, output_path |-> NoPath, remove_first_page |-> FALSE,
                cover_image |-> <<0, 0>>, page_size |-> ""]
    /\ iWriter = NoFile
    /\ iTmp = NoPath
    /\ iFailedAt = "none"
    /\ iError = "none"

\* A variant that wraps every error, the missing source included.
InjectRaiseWrapped(step, error) ==
    /\ ipc' = "raised"
    /\ iFailedAt' = step
    /\ iError' = "RuntimeError"

\* An exception leaves inject_cover: error is what the caller sees.
InjectRaise(step, error) ==
    /\ ipc' = "raised"
    /\ iFailedAt' = step
    /\ iError' = error

\* Lines 212-216: a missing source raises FileNotFoundError before the try.
InjectStart ==
    /\ ipc = "idle"
    /\ \E out \in OutputPaths, rm \in BOOLEAN, img \in InjectImages, ps \in InjectPageSizes :
        iArgs' = [pdf_path |-> SourcePath, output_path |-> out, remove_first_page |-> rm,
                  cover_image |-> img, page_size |-> ps]
    /\ IF ~IsFile(ifs, SourcePath)
       THEN InjectRaise("isfile", "FileNotFoundError")
       ELSE ipc' = "build" /\ UNCHANGED <<iFailedAt, iError>>
    /\ UNCHANGED <<ifs, idirs, ifs0, idirs0, iWriter, iTmp>>

\* Lines 223-239: compose the cover, read the source, assemble the writer.
\* PdfReader raises on an unreadable source; line 260 wraps it.
InjectBuild ==
    /\ ipc = "build"
    /\ IF ~ifs[iArgs.pdf_path].complete
       THEN InjectRaise("read", "RuntimeError") /\ UNCHANGED iWriter
       ELSE /\ iWriter' = MergeDocument(
                    create_cover_page(iArgs.cover_image[1], iArgs.cover_image[2],
                                      iArgs.page_size),
                    ifs[iArgs.pdf_path], iArgs.remove_first_page)
            /\ ipc' = "makedirs"
            /\ UNCHANGED <<iFailedAt, iError>>
    /\ UNCHANGED <<ifs, idirs, ifs0, idirs0, iArgs, iTmp>>

\* Lines 242-243: os.makedirs(out_dir, exist_ok=True) creates the directory,
\* or fails when it cannot.
InjectMakedirs ==
    /\ ipc = "makedirs"
    /\ \/ /\ idirs' = idirs \cup {Dir(iArgs.output_path)}
          /\ ipc' = "mkstemp"
          /\ UNCHANGED <<iFailedAt, iError>>
       \/ /\ Dir(iArgs.output_path) \notin idirs
          /\ InjectRaise("makedirs", "RuntimeError")
          /\ UNCHANGED idirs
    /\ UNCHANGED <<ifs, ifs0, idirs0, iArgs, iWriter, iTmp>>

\* Line 245: mkstemp creates an empty file in out_dir, or fails.
InjectMkstemp ==
    /\ ipc = "mkstemp"
    /\ \/ /\ iTmp' = <<Dir(iArgs.output_path), TmpName>>
          /\ ifs' = [ifs EXCEPT ![<<Dir(iArgs.output_path), TmpName>>] = Truncated(<<>>)]
          /\ ipc' = "write"
          /\ UNCHANGED <<iFailedAt, iError>>
       \/ /\ InjectRaise("mkstemp", "RuntimeError")
          /\ UNCHANGED <<ifs, iTmp>>
    /\ UNCHANGED <<idirs, ifs0, idirs0, iArgs, iWriter>>

\* Lines 247-248: writer.write(tmp_fh) writes the whole document, or fails
\* after any number of pages.
InjectWrite ==
    /\ ipc = "write"
    /\ \/ /\ ifs' = [ifs EXCEPT ![iTmp] = iWriter]
          /\ ipc' = "move"
          /\ UNCHANGED iFailedAt
       \/ /\ \E k \in 0..Len(iWriter.pages) :
                ifs' = [ifs EXCEPT ![iTmp] = Truncated(SubSeq(iWriter.pages, 1, k))]
          /\ ipc' = "cleanup"
          /\ iFailedAt' = "write"
    /\ UNCHANGED <<idirs, ifs0, idirs0, iArgs, iWriter, iTmp, iError>>

\* Line 249: shutil.move(tmp_path, output_path).  os.rename puts the file in
\* place; when it raises OSError (as it does on Windows whenever output_path
\* exists) shutil.move copies tmp_path onto output_path and unlinks tmp_path.
\* The copy can fail before it opens output_path, or after it wrote part of it.
InjectMove ==
    /\ ipc = "move"
    /\ \/ /\ ifs' = MoveFile(ifs, iTmp, iArgs.output_path)
          /\ ipc' = "done"
          /\ UNCHANGED iFailedAt
       \/ /\ ifs' = CleanupTmp(CopyFile(ifs, iTmp, iArgs.output_path, Len(iWriter.pages)), iTmp)
          /\ ipc' = "done"
          /\ UNCHANGED iFailedAt
       \/ /\ ipc' = "cleanup"
          /\ iFailedAt' = "move"
          /\ UNCHANGED ifs
       \/ /\ \E k \in 0..(Len(iWriter.pages) - 1) :
                ifs' = CopyFile(ifs, iTmp, iArgs.output_path, k)
          /\ ipc' = "cleanup"
          /\ iFailedAt' = "move"
    /\ UNCHANGED <<idirs, ifs0, idirs0, iArgs, iWriter, iTmp, iError>>

\* Lines 250-254 and 260-262: remove the temporary file, re-raise, wrap.
InjectCleanup ==
    /\ ipc = "cleanup"
    /\ ifs' = CleanupTmp(ifs, iTmp)
    /\ ipc' = "raised"
    /\ iError' = "RuntimeError"
    /\ UNCHANGED <<idirs, ifs0, idirs0, iArgs, iWriter, iTmp, iFailedAt>>

(***************************************************************************)
(* IEEE-754 double arithmetic for file_size * 1.1 (line 296).  A natural   *)
(* number is a sequence of bits, least significant first.                  *)
(***************************************************************************)
DoubleBits == 53    \* significand bits of a double

RECURSIVE NatBits(_)
NatBits(n) == IF n = 0 THEN <<>> ELSE <<n % 2>> \o NatBits(n \div 2)

RECURSIVE Trim(_)
Trim(b) == IF b # <<>> /\ b[Len(b)] = 0 THEN Trim(SubSeq(b, 1, Len(b) - 1)) ELSE b

Zeros(k) == [i \in 1..k |-> 0]

\* The four bits of one hexadecimal digit.
Nibble(h) == <<h % 2, (h \div 2) % 2, (h \div 4) % 2, (h \div 8) % 2>>

RECURSIVE HexBits(_)
HexBits(digits) ==
    IF digits = <<>> THEN <<>>
    ELSE HexBits(Tail(digits)) \o Nibble(Head(digits))

\* The double nearest to 1.1 is 0x1.199999999999ap+0: the significand
\* 0x1199999999999A scaled by 2^-52.
OnePointOne == Trim(HexBits(<<1, 1, 9, 9, 9, 9, 9, 9, 9, 9, 9, 9, 9, 10>>))

\* bits * s + carry
RECURSIVE MulCarry(_, _, _)
MulCarry(b, s, carry) ==
    IF b = <<>> THEN NatBits(carry)
    ELSE <<(Head(b) * s + carry) % 2>> \o MulCarry(Tail(b), s, (Head(b) * s + carry) \div 2)

RECURSIVE Inc(_)
Inc(b) ==
    IF b = <<>> THEN <<1>>
    ELSE IF Head(b) = 0 THEN <<1>> \o Tail(b)
    ELSE <<0>> \o Inc(Tail(b))

\* Round to DoubleBits significant bits, ties to even.
RoundDouble(b) ==
    IF Len(b) <= DoubleBits THEN b
    ELSE LET d == Len(b) - DoubleBits
             keep == SubSeq(b, d + 1, Len(b))
             up == /\ b[d] = 1
                   /\ \/ \E i \in 1..(d - 1) : b[i] = 1
                      \/ keep[1] = 1
         IN  Zeros(d) \o (IF up THEN Inc(keep) ELSE keep)

BitsLt(a, b) ==
    \/ Len(a) < Len(b)
    \/ /\ Len(a) = Len(b)
       /\ \E i \in 1..Len(a) : a[i] < b[i] /\ \A j \in (i + 1)..Len(a) : a[j] = b[j]

\* file_size * 1.1 as a double, scaled by 2^52.
TimesOnePointOne(file_size) == RoundDouble(Trim(MulCarry(OnePointOne, file_size, 0)))

\* The products for the sizes the model tries, computed once.
Products == [s \in 0..MaxSize |-> TimesOnePointOne(s)]

\* stat.free < file_size * 1.1
BelowMargin(free, file_size) ==
    BitsLt(Trim(Zeros(DoubleBits - 1) \o NatBits(free)), Products[file_size])

(***************************************************************************)
(* pdf_processor.py: export_pdf                                            *)
(***************************************************************************)
ExportNames == {"book.pdf", "x.pdf"}
SourceName == "book.pdf"        \* os.path.basename(source_path)

NoBytes == [exists |-> FALSE, size |-> 0, complete |-> FALSE]
Bytes(n) == [exists |-> TRUE, size |-> n, complete |-> TRUE]
PartBytes(n) == [exists |-> TRUE, size |-> n, complete |-> FALSE]

\* A variant that asks for write permission before it looks at the space.
ExportCheckPermissionFirst(srcIsFile, destIsDir, free, file_size, writable) ==
    IF ~srcIsFile THEN "SourceNotFound"
    ELSE IF ~destIsDir THEN "DestinationNotFound"
    ELSE IF ~writable THEN "PermissionError"
    ELSE IF BelowMargin(free, file_size) THEN "InsufficientSpace"
    ELSE "ok"

\* Lines 286-303: the checks, in the order the code makes them.
ExportCheck(srcIsFile, destIsDir, free, file_size, writable) ==
    IF ~srcIsFile THEN "SourceNotFound"
    ELSE IF ~destIsDir THEN "DestinationNotFound"
    ELSE IF BelowMargin(free, file_size) THEN "InsufficientSpace"
    ELSE IF ~writable THEN "PermissionError"
    ELSE "ok"

\* Line 305: filename or os.path.basename(source_path)
DestName(filename) == IF filename # "" THEN filename ELSE SourceName

\* The source may be missing; the destination may be missing, full, or
\* read-only, and may already hold a file of the source's name.
ExportInit ==
    /\ \E s \in {NoBytes} \cup {Bytes(n) : n \in 0..MaxSize} : eSource = s
    /\ eDestIsDir \in BOOLEAN
    /\ eFree \in 0..MaxFree
    /\ eWritable \in BOOLEAN
    /\ ~eDestIsDir => eFree = 0 /\ ~eWritable
    /\ \E old \in BOOLEAN :
        /\ old => eDestIsDir
        /\ eDest = [n \in ExportNames |-> IF old /\ n = SourceName THEN Bytes(1) ELSE NoBytes]
    /\ eDest0 = eDest
    /\ eFilename = ""
    /\ epc = "idle"
    /\ eError = "none"

ExportIdle ==
    /\ eSource = NoBytes /\ eDestIsDir = FALSE /\ eFree = 0 /\ eWritable = FALSE
    /\ eDest = [n \in ExportNames |-> NoBytes] /\ eDest0 = eDest
    /\ eFilename = "" /\ epc = "off" /\ eError = "none"

\* shutil.copy2(source_path, dest_path): the whole file, or an error after
\* none or half of its bytes.
CopyOutcomes == {"ok", "fails_at_start", "fails_midway"}

CopyInto(dest, name, source, copy) ==
    [dest EXCEPT ![name] =
        CASE copy = "ok" -> source
          [] copy = "fails_at_start" -> PartBytes(0)
          [] OTHER -> PartBytes(source.size \div 2)]

\* A variant that copies before it checks.
export_pdf_copy_first(source, destIsDir, free, writable, dest, filename, copy) ==
    LET r == ExportCheck(source.exists, destIsDir, free, source.size, writable)
    IN  [error |-> IF r # "ok" THEN r ELSE IF copy = "ok" THEN "none" ELSE "CopyError",
         dest |-> CopyInto(dest, DestName(filename), source, copy),
         ret |-> IF r = "ok" /\ copy = "ok" THEN DestName(filename) ELSE ""]

\* Lines 286-314: the error raised ("none" on success), the destination's
\* contents afterwards, and the name of the file returned.
export_pdf(source, destIsDir, free, writable, dest, filename, copy) ==
    LET r == ExportCheck(source.exists, destIsDir, free, source.size, writable)
    IN  IF r # "ok" THEN [error |-> r, dest |-> dest, ret |-> ""]
        ELSE [error |-> IF copy = "ok" THEN "none" ELSE "CopyError",
              dest |-> CopyInto(dest, DestName(filename), source, copy),
              ret |-> IF copy = "ok" THEN DestName(filename) ELSE ""]

\* One call of export_pdf.
ExportPdf ==
    /\ epc = "idle"
    /\ \E fn \in {"", "x.pdf"}, copy \in CopyOutcomes :
        LET r == export_pdf(eSource, eDestIsDir, eFree, eWritable, eDest, fn, copy)
        IN  /\ eFilename' = fn
            /\ eDest' = r.dest
            /\ eError' = r.error
            /\ epc' = IF r.error = "none" THEN "done" ELSE "raised"
    /\ UNCHANGED <<eSource, eDestIsDir, eFree, eWritable, eDest0>>

(***************************************************************************)
(* cover_fetcher.py: CoverResult, the two backends, fetch_covers           *)
(***************************************************************************)
\* Titles a backend may send.  "A" and " a" share the key "a".
Titles == {<<"A">>, <<" ", "a">>, <<"b">>}
NoneTitle == <<"None">>         \* JSON null: the title attribute is None
MissingTitle == <<"missing">>   \* the JSON object has no "title" member
UnknownTitle == <<"U", "n", "k", "n", "o", "w", "n">>

\* One element of "items" / "docs": its title member and whether it carries a
\* thumbnail link (Google Books) or an edition key (Open Library).
Items ==
    {[title |-> t, img |-> TRUE] : t \in Titles \cup {NoneTitle, MissingTitle}}
    \cup {[title |-> <<"b">>, img |-> FALSE]}

\* What a request can meet: no connection, a non-2xx status, a body that is no
\* JSON, a JSON document whose top level is no object, or a well-formed object.
\* The first three raise requests.RequestException (resp.json() raises its
\* JSONDecodeError subclass), which both backends catch.
RequestFailures == {"unreachable", "bad_status", "bad_body"}
RespKinds == RequestFailures \cup {"non_object", "ok"}

CoverResult(title, source, idx) == [title |-> title, source |-> source, idx |-> idx]

\* info.get("title", "Unknown")
TitleOf(item) == IF item.title = MissingTitle THEN UnknownTitle ELSE item.title

\* The loop of a backend over the items of a well-formed response: items
\* without an image are skipped, the others become CoverResults in order.
ParseItems(items, source) ==
    LET kept == SelectSeq(items, LAMBDA it : it.img)
    IN  [i \in 1..Len(kept) |-> CoverResult(TitleOf(kept[i]), source, i)]

\* A variant that forgets to trim.
KeyNoStrip(title) == Lower(title)

\* cr.title.lower().strip()
Key(title) == Strip(Lower(title))

RECURSIVE DedupFrom(_, _)
DedupFrom(s, seen) ==
    IF s = <<>> THEN <<>>
    ELSE LET k == Key(Head(s).title)
         IN  IF k \in seen THEN DedupFrom(Tail(s), seen)
             ELSE <<Head(s)>> \o DedupFrom(Tail(s), seen \cup {k})

\* The merge loop of fetch_covers.
Dedup(s) == DedupFrom(s, {})

HasNoneTitle(s) == \E i \in 1..Len(s) : s[i].title = NoneTitle

Filenames == {<<"A", ".", "p">>, <<"(", "a", ")", ".", "p">>}
MaxResultsArgs == (0 - 1)..MaxRes

FetchIdle ==
    /\ fpc = "idle" /\ fFilename = <<>> /\ fMaxResults = 0 /\ fQuery = <<>>
    /\ googleResp = "none" /\ olResp = "none"
    /\ googleResults = <<>> /\ olResults = <<>>
    /\ fReturn = <<>> /\ fError = "none"

\* fetch_covers, lines 276-279: derive the query; an empty query returns [].
FetchStart ==
    /\ fpc = "idle"
    /\ \E f \in Filenames, m \in MaxResultsArgs :
        /\ fFilename' = f
        /\ fMaxResults' = m
        /\ fQuery' = _sanitise_query(f)
        /\ fpc' = IF _sanitise_query(f) = <<>> THEN "done" ELSE "google"
    /\ UNCHANGED <<googleResp, olResp, googleResults, olResults, fReturn, fError>>

\* What one backend does with the response it meets: a RequestException gives
\* no results; data.get on a non-object raises AttributeError, uncaught.
BackendRaises(kind) == kind = "non_object"

BackendResults(kind, items, source) ==
    IF kind = "ok" THEN ParseItems(items, source) ELSE <<>>

SearchGoogleBooks ==
    /\ fpc = "google"
    /\ \E kind \in RespKinds, items \in SeqsUpTo(Items, MaxItems) :
        /\ kind # "ok" => items = <<>>
        /\ googleResp' = kind
        /\ IF BackendRaises(kind)
           THEN /\ fpc' = "raised"
                /\ fError' = "AttributeError"
                /\ UNCHANGED googleResults
           ELSE /\ fpc' = "ol"
                /\ googleResults' = BackendResults(kind, items, "Google Books")
                /\ UNCHANGED fError
    /\ UNCHANGED <<fFilename, fMaxResults, fQuery, olResp, olResults, fReturn>>

SearchOpenLibrary ==
    /\ fpc = "ol"
    /\ \E kind \in RespKinds, items \in SeqsUpTo(Items, MaxItems) :
        /\ kind # "ok" => items = <<>>
        /\ olResp' = kind
        /\ IF BackendRaises(kind)
           THEN /\ fpc' = "raised"
                /\ fError' = "AttributeError"
                /\ UNCHANGED olResults
           ELSE /\ fpc' = "merge"
                /\ olResults' = BackendResults(kind, items, "Open Library")
                /\ UNCHANGED fError
    /\ UNCHANGED <<fFilename, fMaxResults, fQuery, googleResp, googleResults, fReturn>>

\* fetch_covers, lines 287-296.  None has no lower(): a candidate whose title
\* is None makes the loop raise AttributeError.
MergeDedup ==
    /\ fpc = "merge"
    /\ IF HasNoneTitle(googleResults \o olResults)
       THEN /\ fpc' = "raised"
            /\ fError' = "AttributeError"
            /\ UNCHANGED fReturn
       ELSE /\ fpc' = "done"
            /\ fReturn' = PySlicePrefix(Dedup(googleResults \o olResults), fMaxResults)
            /\ UNCHANGED fError
    /\ UNCHANGED <<fFilename, fMaxResults, fQuery, googleResp, olResp,
                   googleResults, olResults>>


(***************************************************************************)
(* cover_fetcher.py: download_image, download_thumbnails                   *)
(***************************************************************************)
\* What the task of one candidate meets: the image arrives and is resized;
\* download_image returns None (any error of the request or the decoder is
\* caught at line 220); or img.thumbnail raises inside the task.
DownloadOutcomes == {"ok", "download_fails", "resize_raises"}

\* A variant that takes a running task for a finished one.
FinishedOrRunning(st) == st \in {"running", "finished", "raised"}

\* Future.done(): the task returned or raised.
Finished(st) == st \in {"finished", "raised"}

\* A variant of lines 250-253 without the except clause.
FutureResultUncaught(st) == IF st = "raised" THEN "Exception" ELSE "none"

\* Lines 250-253: fut.result() inside try / except Exception: what escapes.
FutureResult(st) == "none"

Running(status) == {i \in 1..Len(status) : status[i] = "running"}
Queued(status) == {i \in 1..Len(status) : status[i] = "queued"}
Submitted(status) == {i \in 1..Len(status) : status[i] # "new"}

ThumbInit ==
    /\ tpc = "idle"
    /\ tOutcome \in SeqsUpTo(DownloadOutcomes, MaxCands)
    /\ tWorkers \in 1..MaxWorkers
    /\ tStatus = [i \in 1..Len(tOutcome) |-> "new"]
    /\ tSlot = [i \in 1..Len(tOutcome) |-> "unset"]
    /\ tWriters = [i \in 1..Len(tOutcome) |-> {}]
    /\ tCollected = {}
    /\ tOrder = <<>>
    /\ tError = "none"

ThumbIdle ==
    /\ tpc = "off" /\ tOutcome = <<>> /\ tWorkers = 0 /\ tStatus = <<>>
    /\ tSlot = <<>> /\ tWriters = <<>> /\ tCollected = {} /\ tOrder = <<>>
    /\ tError = "none"

\* Line 247: the pool is created.
ThumbCall ==
    /\ tpc = "idle"
    /\ tpc' = "submit"
    /\ UNCHANGED <<tOutcome, tWorkers, tStatus, tSlot, tWriters, tCollected, tOrder, tError>>

\* Line 248: pool.submit(_fetch, cr) for the next candidate, in list order;
\* after the last one the loop over as_completed begins.
ThumbSubmit ==
    /\ tpc = "submit"
    /\ IF Submitted(tStatus) # 1..Len(tStatus)
       THEN /\ tStatus' = [tStatus EXCEPT ![Cardinality(Submitted(tStatus)) + 1] = "queued"]
            /\ UNCHANGED tpc
       ELSE /\ tpc' = "collect"
            /\ UNCHANGED tStatus
    /\ UNCHANGED <<tOutcome, tWorkers, tSlot, tWriters, tCollected, tOrder, tError>>

\* A worker thread takes the oldest queued task; at most max_workers run.
TaskStart ==
    /\ Queued(tStatus) # {}
    /\ Cardinality(Running(tStatus)) < tWorkers
    /\ LET i == CHOOSE q \in Queued(tStatus) : \A r \in Queued(tStatus) : q <= r
       IN  tStatus' = [tStatus EXCEPT ![i] = "running"]
    /\ UNCHANGED <<tpc, tOutcome, tWorkers, tSlot, tWriters, tCollected, tOrder, tError>>

\* Lines 240-245: _fetch(cr) of a running task comes to its end.
TaskFinish ==
    \E i \in Running(tStatus) :
        /\ tStatus' = [tStatus EXCEPT ![i] =
                          IF tOutcome[i] = "resize_raises" THEN "raised" ELSE "finished"]
        /\ IF tOutcome[i] = "ok"
           THEN /\ tSlot' = [tSlot EXCEPT ![i] = "image"]
                /\ tWriters' = [tWriters EXCEPT ![i] = @ \cup {i}]
           ELSE UNCHANGED <<tSlot, tWriters>>
        /\ tOrder' = Append(tOrder, i)
        /\ UNCHANGED <<tpc, tOutcome, tWorkers, tCollected, tError>>

\* Lines 249-253: as_completed yields a finished future not yielded before;
\* an exception that escapes the loop body leaves the loop.
ThumbCollect ==
    /\ tpc = "collect"
    /\ \E i \in Submitted(tStatus) \ tCollected :
        /\ Finished(tStatus[i])
        /\ tCollected' = tCollected \cup {i}
        /\ tError' = FutureResult(tStatus[i])
        /\ tpc' = IF FutureResult(tStatus[i]) = "none" THEN "collect" ELSE "shutdown"
    /\ UNCHANGED <<tOutcome, tWorkers, tStatus, tSlot, tWriters, tOrder>>

\* as_completed is exhausted once it has yielded every future.
ThumbCollectEnd ==
    /\ tpc = "collect"
    /\ tCollected = Submitted(tStatus)
    /\ tpc' = "shutdown"
    /\ UNCHANGED <<tOutcome, tWorkers, tStatus, tSlot, tWriters, tCollected, tOrder, tError>>

\* The end of the with block: shutdown(wait=True) returns when no task is
\* left; then line 255 returns, or the escaped exception propagates.
ThumbShutdown ==
    /\ tpc = "shutdown"
    /\ \A i \in 1..Len(tStatus) : Finished(tStatus[i])
    /\ tpc' = IF tError = "none" THEN "returned" ELSE "raised"
    /\ UNCHANGED <<tOutcome, tWorkers, tStatus, tSlot, tWriters, tCollected, tOrder, tError>>

(***************************************************************************)
(* gui.py: _on_process, its worker, _show_summary, _on_clear_pdfs          *)
(***************************************************************************)
\* The documents that can be selected, as <<directory, base name>>; two of
\* them share a base name.
BatchPaths == {<<"a", "x.pdf">>, <<"b", "x.pdf">>, <<"a", "y.pdf">>}
Basename(path) == path[2]

\* The lists a file dialog can give: no path twice.
Selections ==
    {sel \in SeqsUpTo(BatchPaths, MaxBatch) :
        \A i, j \in 1..Len(sel) : i # j => sel[i] # sel[j]}

\* What the try block of one document meets (lines 735-746): everything
\* works; mkdtemp raises; inject_cover raises; export_pdf raises at one of
\* its checks; export_pdf raises out of the copy, a partial file left behind.
DocOutcomes == {"ok", "mkdtemp_fails", "inject_fails", "export_check_fails", "copy_fails"}

\* self.selected_cover_image is None or one of a few images.
NoCover == 0
Covers == 1..MaxCovers

\* inject_cover cannot build a cover page from None: with no image the try
\* block ends in mkdtemp or in inject_cover.
OutcomesWith(cover) ==
    IF cover = NoCover THEN {"mkdtemp_fails", "inject_fails"} ELSE DocOutcomes

NoDelivery == [exists |-> FALSE, from |-> <<"", "">>, complete |-> FALSE]
Delivered(path, complete) == [exists |-> TRUE, from |-> path, complete |-> complete]
NoSummary == [shown |-> FALSE, exported |-> <<>>, errors |-> <<>>]

\* A variant whose except clause records nothing.
TryDocumentSilent(exported, errors, path, outcome) ==
    [exported |-> IF outcome = "ok" THEN Append(exported, Basename(path)) ELSE exported,
     errors |-> errors]

\* Lines 735-749: exported.append(final) at the end of the try block,
\* errors.append(f"{base}: {exc}") in the except clause.
TryDocument(exported, errors, path, outcome) ==
    [exported |-> IF outcome = "ok" THEN Append(exported, Basename(path)) ELSE exported,
     errors |-> IF outcome = "ok" THEN errors
                ELSE Append(errors, [base |-> Basename(path), exc |-> outcome])]

\* export_pdf(out_path, dest, base) writes dest/base when its checks pass.
Deliver(dest, path, outcome) ==
    CASE outcome = "ok" -> [dest EXCEPT ![Basename(path)] = Delivered(path, TRUE)]
      [] outcome = "copy_fails" -> [dest EXCEPT ![Basename(path)] = Delivered(path, FALSE)]
      [] OTHER -> dest

BatchInit ==
    /\ bpc = "idle"
    /\ bPaths \in Selections
    /\ bBatch = <<>>
    /\ bCover \in {NoCover} \cup Covers
    /\ bDestOk \in BOOLEAN
    /\ bIndex = 0
    /\ bDone = <<>>
    /\ bExported = <<>>
    /\ bErrors = <<>>
    /\ bDest = [n \in {Basename(q) : q \in BatchPaths} |-> NoDelivery]
    /\ bShown = NoSummary
    /\ bCleared = FALSE
    /\ bWork = <<>>
    /\ bShared = FALSE
    /\ bClickCover = NoCover
    /\ bTotal = 0
    /\ bProgress = 0

BatchIdle ==
    /\ bpc = "off" /\ bPaths = <<>> /\ bBatch = <<>> /\ bCover = NoCover /\ bDestOk = FALSE
    /\ bIndex = 0 /\ bDone = <<>> /\ bExported = <<>> /\ bErrors = <<>>
    /\ bDest = [n \in {Basename(q) : q \in BatchPaths} |-> NoDelivery]
    /\ bShown = NoSummary /\ bCleared = FALSE
    /\ bWork = <<>> /\ bShared = FALSE /\ bClickCover = NoCover
    /\ bTotal = 0 /\ bProgress = 0

\* Lines 702-723 and 756: the three validations, the progress bar is set up
\* for total = len(self.pdf_paths), then the worker is started; its for loop
\* iterates the list object that self.pdf_paths names at that time.
ProcessClick ==
    /\ bpc = "idle"
    /\ IF bPaths = <<>> \/ bCover = NoCover \/ ~bDestOk
       THEN /\ bpc' = "warned"
            /\ UNCHANGED <<bBatch, bWork, bShared, bClickCover, bTotal, bProgress>>
       ELSE /\ bpc' = "loop"
            /\ bBatch' = bPaths
            /\ bWork' = bPaths
            /\ bShared' = TRUE
            /\ bClickCover' = bCover
            /\ bTotal' = Len(bPaths)
            /\ bProgress' = 0
    /\ UNCHANGED <<bPaths, bCover, bDestOk, bIndex, bDone, bExported, bErrors, bDest,
                   bShown, bCleared>>

\* Lines 731-751: one turn of the worker's loop.  The list iterator yields
\* the element at index while index < len of the list; inject_cover is
\* handed self.selected_cover_image as it is in this turn; the posted
\* _update_progress(i + 1) runs on the UI thread before any later callback.
BatchDocument ==
    /\ bpc = "loop"
    /\ bIndex < Len(bWork)
    /\ \E outcome \in OutcomesWith(bCover) :
        LET path == bWork[bIndex + 1]
            r == TryDocument(bExported, bErrors, path, outcome)
        IN  /\ bDone' = Append(bDone, [path |-> path, outcome |-> outcome,
                                       cover |-> bCover])
            /\ bExported' = r.exported
            /\ bErrors' = r.errors
            /\ bDest' = Deliver(bDest, path, outcome)
    /\ bIndex' = bIndex + 1
    /\ bProgress' = bIndex + 1
    /\ UNCHANGED <<bpc, bPaths, bBatch, bCover, bDestOk, bShown, bCleared, bWork,
                   bShared, bClickCover, bTotal>>

\* Line 754: the iterator is exhausted; the summary is handed to the UI thread.
BatchEnd ==
    /\ bpc = "loop"
    /\ bIndex >= Len(bWork)
    /\ bpc' = "posted"
    /\ UNCHANGED <<bPaths, bBatch, bCover, bDestOk, bIndex, bDone, bExported, bErrors,
                   bDest, bShown, bCleared, bWork, bShared, bClickCover, bTotal,
                   bProgress>>

\* Lines 761-782: _show_summary(exported, errors, dest) on the UI thread.
ShowSummary ==
    /\ bpc = "posted"
    /\ bShown' = [shown |-> TRUE, exported |-> bExported, errors |-> bErrors]
    /\ bpc' = "summary"
    /\ UNCHANGED <<bPaths, bBatch, bCover, bDestOk, bIndex, bDone, bExported, bErrors,
                   bDest, bCleared, bWork, bShared, bClickCover, bTotal, bProgress>>

\* Lines 358-359: the Clear button empties the list in place, also while a
\* worker iterates it.
ClearPdfs ==
    /\ bpc \in {"idle", "loop", "posted"}
    /\ bPaths # <<>>
    /\ bPaths' = <<>>
    /\ bWork' = IF bShared THEN <<>> ELSE bWork
    /\ bCleared' = (bCleared \/ (bpc = "loop" /\ bShared))
    /\ UNCHANGED <<bpc, bBatch, bCover, bDestOk, bIndex, bDone, bExported, bErrors, bDest,
                   bShown, bShared, bClickCover, bTotal, bProgress>>

\* _on_browse_pdfs, lines 334-341, while the worker runs: self.pdf_paths is
\* bound to a new list (here of one document); the worker keeps the list it
\* iterates.
BrowsePdfs ==
    /\ bpc = "loop"
    /\ \E path \in BatchPaths : bPaths' = <<path>>
    /\ bShared' = FALSE
    /\ UNCHANGED <<bpc, bBatch, bCover, bDestOk, bIndex, bDone, bExported, bErrors, bDest,
                   bShown, bCleared, bWork, bClickCover, bTotal, bProgress>>

\* _on_search_covers, lines 404-405, while the worker runs: starting a search
\* sets self.selected_cover_image to None.
SearchCovers ==
    /\ bpc = "loop"
    /\ bCover # NoCover
    /\ bCover' = NoCover
    /\ UNCHANGED <<bpc, bPaths, bBatch, bDestOk, bIndex, bDone, bExported, bErrors, bDest,
                   bShown, bCleared, bWork, bShared, bClickCover, bTotal, bProgress>>

\* _fetch_full (line 488), _on_ai_cover_ready (line 570) and
\* _on_browse_custom_cover (line 515), while the worker runs: another image
\* becomes the selected one.
SelectCover ==
    /\ bpc = "loop"
    /\ \E c \in Covers :
        /\ c # bCover
        /\ bCover' = c
    /\ UNCHANGED <<bpc, bPaths, bBatch, bDestOk, bIndex, bDone, bExported, bErrors, bDest,
                   bShown, bCleared, bWork, bShared, bClickCover, bTotal, bProgress>>

(***************************************************************************)
(* gui.py: _resolve_destination                                            *)
(***************************************************************************)
\* sub in s
Contains(s, sub) ==
    \E i \in 0..(Len(s) - Len(sub)) : SubSeq(s, i + 1, i + Len(sub)) = sub

StartsWith(s, prefix) ==
    Len(prefix) <= Len(s) /\ SubSeq(s, 1, Len(prefix)) = prefix

\* Index of the first ":" of s, 0 if it has none.
FirstColon(s) ==
    LET cs == {i \in 1..Len(s) : s[i] = ":"}
    IN  IF cs = {} THEN 0 ELSE CHOOSE i \in cs : \A j \in cs : i <= j

\* s.split(":", 1)[-1]
AfterFirstColon(s) ==
    IF FirstColon(s) = 0 THEN s ELSE SubSeq(s, FirstColon(s) + 1, Len(s))

\* The marker "<folder sign> Default:" that _refresh_devices puts before the
\* default directory; "D" stands for the text before its colon.
DefaultMarker == <<"D", ":">>

\* The entry _refresh_devices shows for a device (line 656); "R" stands for
\* the book sign and "-" for the dash, the free space is left out.
DeviceLabel(dev) == <<"R", " ">> \o dev.name \o <<" ", "-", " ">> \o dev.documents_dir

\* The entry _refresh_devices shows for the default directory (line 660).
DefaultEntry(default_dir) == DefaultMarker \o <<" ">> \o default_dir

\* Lines 654-660: the values of the destination list, one per detected
\* device and one for the configured default directory if it is set and
\* exists; each paired with the directory it displays.
RefreshEntries(devices, default_dir, dirs) ==
    [i \in 1..Len(devices) |->
        [text |-> DeviceLabel(devices[i]), dir |-> devices[i].documents_dir]]
    \o (IF default_dir # <<>> /\ default_dir \in dirs
        THEN <<[text |-> DefaultEntry(default_dir), dir |-> default_dir]>>
        ELSE <<>>)

NoneDir == <<"None">>           \* the return value None

DeviceNames == {<<"K">>, <<"K", "2">>}
DirNames == {<<"/">>, <<"/", "k">>}
Devices == {[name |-> n, documents_dir |-> d] : n \in DeviceNames, d \in DirNames}

MatchingDevices(raw, devices) ==
    {i \in 1..Len(devices) :
        Contains(raw, devices[i].documents_dir) \/ Contains(raw, devices[i].name)}

\* A variant that lets the last matching device win.
PickDeviceLast(matches) == CHOOSE i \in matches : \A j \in matches : j <= i

\* Lines 685-687: the loop returns at the first device that matches.
PickDevice(matches) == CHOOSE i \in matches : \A j \in matches : i <= j

\* Lines 675-696.
_resolve_destination(dest_var, devices, dirs) ==
    LET raw == Strip(dest_var)
        ddir == Strip(AfterFirstColon(raw))
    IN  IF raw = <<>> THEN NoneDir
        ELSE IF raw \in dirs THEN raw
        ELSE IF MatchingDevices(raw, devices) # {}
             THEN devices[PickDevice(MatchingDevices(raw, devices))].documents_dir
        ELSE IF StartsWith(raw, DefaultMarker) /\ ddir \in dirs THEN ddir
        ELSE NoneDir

TokenChars == {"K", "2", "/", "k", " ", "D", ":", "x"}

\* What the destination box can hold: a device entry, a default-directory
\* entry, a browsed or typed path, with or without blanks around it, or any
\* short text.
Tokens ==
    {DeviceLabel(d) : d \in Devices}
    \cup {DefaultMarker \o <<" ">> \o d : d \in DirNames \cup {<<"x">>}}
    \cup {DefaultMarker \o d \o <<":">> : d \in DirNames}
    \cup {<<" ">> \o d \o <<" ">> : d \in DirNames}
    \cup {<<"x">> \o d : d \in DirNames}
    \cup SeqsUpTo(TokenChars, MaxTokenLen)

ResolveInit ==
    /\ rpc = "idle"
    /\ rRaw \in Tokens
    /\ rDevices \in SeqsUpTo(Devices, MaxDevices)
    /\ rDirs \in SUBSET DirNames
    /\ rResult = NoneDir

ResolveIdle ==
    rpc = "off" /\ rRaw = <<>> /\ rDevices = <<>> /\ rDirs = {} /\ rResult = NoneDir

\* One call of _resolve_destination.
ResolveDestination ==
    /\ rpc = "idle"
    /\ rResult' = _resolve_destination(rRaw, rDevices, rDirs)
    /\ rpc' = "done"
    /\ UNCHANGED <<rRaw, rDevices, rDirs>>

(***************************************************************************)
(* gui.py: the event handlers, the threads they start and the I/O they do  *)
(***************************************************************************)
\* The buttons and dialogs of the window.
UserEvents == {"browse_pdfs", "search", "thumb_click", "browse_custom_cover",
               "generate_ai", "refresh_devices", "process"}

\* The I/O a handler does itself, on the UI thread, when its input is valid.
\*   _on_browse_custom_cover, line 514: Image.open(path).convert("RGB")
\*   _refresh_devices, lines 653 and 659: detect_ereaders(), os.path.isdir
\*   _on_process, line 714: _resolve_destination() calls os.path.isdir
HandlerIo(event) ==
    CASE event = "browse_custom_cover" -> {"image_decode_file"}
      [] event = "refresh_devices" -> {"device_enumeration", "directory_stat"}
      [] event = "process" -> {"directory_stat"}
      [] OTHER -> {}

\* The worker thread a handler starts: threading.Thread(target=...).start()
\* at lines 608 (from _on_browse_pdfs), 425, 496, 563 and 756.
HandlerStarts(event) ==
    CASE event = "browse_pdfs" -> "pdf_preview"
      [] event = "search" -> "search"
      [] event = "thumb_click" -> "fetch_full"
      [] event = "generate_ai" -> "generate"
      [] event = "process" -> "process"
      [] OTHER -> "none"

WorkerKinds == {"pdf_preview", "search", "fetch_full", "generate", "process"}

\* The I/O the target function of a worker does.
\*   _update_pdf_preview._worker, line 604: render_first_page
\*   _on_search_covers._worker, lines 410-418: fetch_covers, download_thumbnails
\*   _on_thumb_click._fetch_full, line 486: download_image(cr.full_url)
\*   _on_generate_ai_cover._worker, line 548: generate_cover
\*   _on_process._worker, lines 737-745: mkdtemp, inject_cover, export_pdf
WorkerIo(kind) ==
    CASE kind = "pdf_preview" -> {"render_first_page"}
      [] kind = "search" -> {"search", "thumbnail_download"}
      [] kind = "fetch_full" -> {"full_image_download"}
      [] kind = "generate" -> {"image_generation"}
      [] kind = "process" -> {"merge", "delivery"}

\* The callback a worker posts when it ends.
WorkerPosts(kind) ==
    CASE kind = "pdf_preview" -> "_show_pdf_page"
      [] kind = "search" -> "_display_thumbnails"
      [] kind = "fetch_full" -> "_show_preview"
      [] kind = "generate" -> "_on_ai_cover_ready"
      [] kind = "process" -> "_show_summary"

IoBy(ops, thread) == {[op |-> o, thread |-> thread] : o \in ops}

UiInit ==
    /\ uClicks = 0
    /\ uWorkers = [k \in WorkerKinds |-> 0]
    /\ uEvents = <<>>
    /\ uIo = {}

UiIdle ==
    /\ uClicks = MaxClicks
    /\ uWorkers = [k \in WorkerKinds |-> 0]
    /\ uEvents = <<>>
    /\ uIo = {}

\* The UI thread runs the handler of one user event.  A handler whose input
\* is not valid (no query, no path chosen, no cover selected) shows a warning
\* or returns at once; a valid one does its own I/O and starts its worker.
UiHandle ==
    /\ uClicks < MaxClicks
    /\ uClicks' = uClicks + 1
    /\ \E event \in UserEvents, valid \in BOOLEAN :
        IF valid
        THEN /\ uIo' = uIo \cup IoBy(HandlerIo(event), "ui")
             /\ uWorkers' = IF HandlerStarts(event) = "none" THEN uWorkers
                            ELSE [uWorkers EXCEPT ![HandlerStarts(event)] = @ + 1]
        ELSE UNCHANGED <<uIo, uWorkers>>
    /\ UNCHANGED uEvents

\* A worker thread runs its target function to the end and posts its callback.
UiWorkerRun ==
    \E kind \in WorkerKinds :
        /\ uWorkers[kind] > 0
        /\ uWorkers' = [uWorkers EXCEPT ![kind] = @ - 1]
        /\ uIo' = uIo \cup IoBy(WorkerIo(kind), "worker")
        /\ uEvents' = Append(uEvents, WorkerPosts(kind))
        /\ UNCHANGED uClicks

\* The UI thread runs the oldest posted callback; the callbacks only touch
\* widgets and images already in memory.
UiCallback ==
    /\ uEvents # <<>>
    /\ uEvents' = Tail(uEvents)
    /\ UNCHANGED <<uClicks, uWorkers, uIo>>

(***************************************************************************)
(* cover_fetcher.py and gui.py: the URLs of a candidate, the thumbnail      *)
(* downloads of a search, the full image fetched on a click                 *)
(***************************************************************************)
\* A URL is <<host, id of the book, rendition>>.
\* What an item of a backend's answer carries: a Google Books item has a
\* thumbnail link and may have a large and a medium link; an Open Library
\* document has an edition id.
AnswerKinds == {"google_large", "google_medium", "google_thumbnail_only", "open_library"}

\* search_google_books, lines 135-136 and 145-146:
\*   thumb = images.get("thumbnail", "")
\*   full = images.get("large", images.get("medium", thumb))
GoogleUrls(kind, id) ==
    LET thumb == <<"books.google", id, "thumbnail">>
    IN  [thumbnail_url |-> thumb,
         full_url |-> CASE kind = "google_large" -> <<"books.google", id, "large">>
                        [] kind = "google_medium" -> <<"books.google", id, "medium">>
                        [] OTHER -> thumb]

\* search_open_library, lines 189-194: both URLs are cover_url.
OpenLibraryUrls(id) ==
    LET cover_url == <<"covers.openlibrary", id, "L">>
    IN  [thumbnail_url |-> cover_url, full_url |-> cover_url]

CandidateUrls(kind, id) ==
    IF kind = "open_library" THEN OpenLibraryUrls(id) ELSE GoogleUrls(kind, id)

ImageRequest(url, purpose, selected) ==
    [url |-> url, purpose |-> purpose, selected |-> selected]

PickInit ==
    /\ ppc = "idle"
    /\ pAnswer \in SeqsUpTo(AnswerKinds, MaxItems)
    /\ pResults = <<>>
    /\ pThumbs = <<>>
    /\ pCoverResults = <<>>
    /\ pSelected = {}
    /\ pFull = {}
    /\ pRequests = {}
    /\ pFullOk \in [1..Len(pAnswer) -> BOOLEAN]
    /\ pIndex = 0
    /\ pImage = 0

PickIdle ==
    /\ ppc = "off" /\ pAnswer = <<>> /\ pResults = <<>> /\ pThumbs = <<>>
    /\ pCoverResults = <<>> /\ pSelected = {} /\ pFull = {} /\ pRequests = {}
    /\ pFullOk = <<>> /\ pIndex = 0 /\ pImage = 0

\* _on_search_covers._worker, lines 410-414: fetch_covers asks the two
\* search endpoints and builds the candidates; it requests no image.
PickSearch ==
    /\ ppc = "idle"
    /\ pResults' = [i \in 1..Len(pAnswer) |-> CandidateUrls(pAnswer[i], i)]
    /\ pThumbs' = [i \in 1..Len(pAnswer) |-> "todo"]
    /\ ppc' = "thumbnails"
    /\ UNCHANGED <<pAnswer, pCoverResults, pSelected, pFull, pRequests,
                   pFullOk, pIndex, pImage>>

\* download_thumbnails._fetch, line 241: download_image(cr.thumbnail_url),
\* for the candidates in any order; the download succeeds or fails.
PickThumbnail ==
    /\ ppc = "thumbnails"
    /\ \E i \in 1..Len(pResults), ok \in BOOLEAN :
        /\ pThumbs[i] = "todo"
        /\ pRequests' = pRequests \cup
                {ImageRequest(pResults[i].thumbnail_url, "thumbnail", pSelected)}
        /\ pThumbs' = [pThumbs EXCEPT ![i] = IF ok THEN "image" ELSE "unset"]
    /\ UNCHANGED <<ppc, pAnswer, pResults, pCoverResults, pSelected, pFull,
                   pFullOk, pIndex, pImage>>

\* Line 420 and _display_thumbnails: once every download has ended the grid
\* is shown and self.cover_results set.
PickDisplay ==
    /\ ppc = "thumbnails"
    /\ \A i \in 1..Len(pThumbs) : pThumbs[i] # "todo"
    /\ pCoverResults' = pResults
    /\ ppc' = "shown"
    /\ UNCHANGED <<pAnswer, pResults, pThumbs, pSelected, pFull, pRequests,
                   pFullOk, pIndex, pImage>>

\* _on_thumb_click, lines 471-496: only a candidate with a thumbnail has a
\* clickable label; the click sets self.selected_cover_index and starts a
\* _fetch_full thread.
PickThumbClick ==
    /\ ppc = "shown"
    /\ \E i \in 1..Len(pCoverResults) :
        /\ pThumbs[i] = "image"
        /\ i \notin pFull
        /\ pSelected' = pSelected \cup {i}
        /\ pFull' = pFull \cup {i}
        /\ pIndex' = i
    /\ UNCHANGED <<ppc, pAnswer, pResults, pThumbs, pCoverResults, pRequests,
                   pFullOk, pImage>>

\* _fetch_full, lines 485-494, on its own thread: download_image(cr.full_url)
\* and, if an image came back, self.selected_cover_image = img.
PickFetchFull ==
    \E i \in pFull :
        /\ pRequests' = pRequests \cup
                {ImageRequest(pCoverResults[i].full_url, "full", pSelected)}
        /\ pFull' = pFull \ {i}
        /\ pImage' = IF pFullOk[i] THEN i ELSE pImage
        /\ UNCHANGED <<ppc, pAnswer, pResults, pThumbs, pCoverResults, pSelected,
                       pFullOk, pIndex>>

(***************************************************************************)
(* ai_cover_generator.py: _load_openai_key, generate_cover                 *)
(***************************************************************************)
\* What can be at api_keys_path: no file; a file that cannot be opened; text
\* that is no JSON; JSON whose top level is no object; an object without the
\* key, with an empty key, or with a key.
KeyFiles == {"missing", "unreadable", "bad_json", "non_object", "no_key", "empty_key", "key"}

\* _load_openai_key, lines 31-37: the key, "" when there is none; or the
\* exception that escapes (only FileNotFoundError and JSONDecodeError are
\* caught; keys.get on a list raises AttributeError).
_load_openai_key(file) ==
    CASE file = "key" -> [key |-> "sk", error |-> "none"]
      [] file = "unreadable" -> [key |-> "", error |-> "PermissionError"]
      [] file = "non_object" -> [key |-> "", error |-> "AttributeError"]
      [] OTHER -> [key |-> "", error |-> "none"]

\* What the POST can meet.  The first three raise requests.RequestException.
\* The others are a 2xx answer with a JSON body: the expected shape
\* {"data": [{"url": ...}]}; an object without "data"; "data" an empty list;
\* the first element without "url"; "data" null; a top level that is a list;
\* a first element that is a string.
GenRequestFailures == {"unreachable", "bad_status", "bad_body"}
GenBodies == {"url", "no_data", "empty_data", "no_url", "data_null", "top_list", "item_string"}
GenResponses == GenRequestFailures \cup GenBodies

\* Lines 148-152: image_url = data["data"][0]["url"] under
\* except (KeyError, IndexError); the exception that leaves the statement.
ExtractUrl(body) ==
    CASE body = "url" -> "none"
      [] body \in {"no_data", "no_url"} -> "RuntimeError"       \* KeyError
      [] body = "empty_data" -> "RuntimeError"                  \* IndexError
      [] body \in {"data_null", "top_list", "item_string"} -> "TypeError"

\* What the download of the image can meet; lines 155-164 turn every
\* exception into RuntimeError.
AssetOutcomes == {"image", "unreachable", "bad_status", "undecodable"}

Models == {"dall-e-3", "dall-e-2"}

GenInit ==
    /\ apc = "idle"
    /\ aKeys \in KeyFiles
    /\ aModel \in Models
    /\ aResp \in GenResponses
    /\ aAsset \in AssetOutcomes
    /\ aRequests = <<>>
    /\ aPayload = {}
    /\ aReturn = "none"
    /\ aError = "none"

GenIdle ==
    /\ apc = "off" /\ aKeys = "missing" /\ aModel = "" /\ aResp = "unreachable"
    /\ aAsset = "unreachable" /\ aRequests = <<>> /\ aPayload = {}
    /\ aReturn = "none" /\ aError = "none"

GenRaise(error) == apc' = "raised" /\ aError' = error

\* Lines 98-104: load the key; without one raise ValueError.
GenLoadKey ==
    /\ apc = "idle"
    /\ LET k == _load_openai_key(aKeys)
       IN  IF k.error # "none" THEN GenRaise(k.error)
           ELSE IF k.key = "" THEN GenRaise("ValueError")
           ELSE apc' = "post" /\ UNCHANGED aError
    /\ UNCHANGED <<aKeys, aModel, aResp, aAsset, aRequests, aPayload, aReturn>>

\* Lines 111-145: build the payload, POST it; a RequestException becomes
\* RuntimeError.
GenPost ==
    /\ apc = "post"
    /\ aPayload' = {"model", "prompt", "n", "size", "response_format"}
                   \cup (IF aModel = "dall-e-3" THEN {"quality"} ELSE {})
    /\ aRequests' = Append(aRequests, "POST generations")
    /\ IF aResp \in GenRequestFailures
       THEN GenRaise("RuntimeError")
       ELSE apc' = "extract" /\ UNCHANGED aError
    /\ UNCHANGED <<aKeys, aModel, aResp, aAsset, aReturn>>

\* Lines 148-152.
GenExtract ==
    /\ apc = "extract"
    /\ IF ExtractUrl(aResp) # "none"
       THEN GenRaise(ExtractUrl(aResp))
       ELSE apc' = "download" /\ UNCHANGED aError
    /\ UNCHANGED <<aKeys, aModel, aResp, aAsset, aRequests, aPayload, aReturn>>

\* Lines 155-164.
GenDownload ==
    /\ apc = "download"
    /\ aRequests' = Append(aRequests, "GET image")
    /\ IF aAsset = "image"
       THEN apc' = "returned" /\ aReturn' = "image" /\ UNCHANGED aError
       ELSE GenRaise("RuntimeError") /\ UNCHANGED aReturn
    /\ UNCHANGED <<aKeys, aModel, aResp, aAsset, aPayload>>

(***************************************************************************)
(* cover_fetcher.py: _sanitise_query called on its own                     *)
(***************************************************************************)
NameChars == {"a", "(", ")", "[", "]", " ", "_", "."}

\* A title with a dot in it, followed by an extension.
DottedNames == {<<"a", ".", " ", "a", ".", "a">>}

QueryInit ==
    /\ qpc = "idle"
    /\ qFilename \in SeqsUpTo(NameChars, MaxNameLen) \cup DottedNames
    /\ qQuery = <<>>
    /\ qSearched = <<>>

QueryIdle ==
    qpc = "off" /\ qFilename = <<>> /\ qQuery = <<>> /\ qSearched = <<>>

\* One call of _sanitise_query; _on_browse_pdfs (gui.py lines 346-349) puts
\* the result into the search box.
SanitiseQuery ==
    /\ qpc = "idle"
    /\ qQuery' = _sanitise_query(qFilename)
    /\ qpc' = "done"
    /\ UNCHANGED <<qFilename, qSearched>>

\* _on_search_covers (gui.py lines 398-414) with the search box as filled:
\* the stripped text, if not empty, goes to fetch_covers, whose line 276
\* derives the query from it with _sanitise_query.
SearchQuery ==
    /\ qpc = "done"
    /\ IF Strip(qQuery) = <<>>
       THEN qpc' = "warned" /\ UNCHANGED qSearched
       ELSE qpc' = "searched" /\ qSearched' = _sanitise_query(Strip(qQuery))
    /\ UNCHANGED <<qFilename, qQuery>>

(***************************************************************************)
(* detect_ereaders (device_detector.py).  The file system is an input: a   *)
(* directory is absent (is_dir() is False), unreadable (is_dir() is True   *)
(* and listing it raises PermissionError) or readable with its entries in  *)
(* listing order.  A volume is a directory entry with a name, whether it   *)
(* is a directory and whether its free-space query succeeds.               *)
(***************************************************************************)
EREADER_PATTERNS ==
    { <<"k","i","n","d","l","e">>, <<"k","o","b","o">>,
      <<"p","o","c","k","e","t","b","o","o","k">>, <<"n","o","o","k">>,
      <<"t","o","l","i","n","o">>, <<"o","n","y","x">>, <<"b","o","o","x">>,
      <<"r","e","m","a","r","k","a","b","l","e">> }

\* sony.?reader: "sony", at most one character, "reader".
SonyReader(name) ==
    \E i \in 1..Len(name) : \E gap \in {0, 1} :
        /\ i + 3 + gap + 6 <= Len(name)
        /\ SubSeq(name, i, i + 3) = <<"s","o","n","y">>
        /\ SubSeq(name, i + 4 + gap, i + 9 + gap) = <<"r","e","a","d","e","r">>

\* for pattern in EREADER_PATTERNS: if pattern.search(vol_name), IGNORECASE.
IsEreader(name) ==
    \/ \E p \in EREADER_PATTERNS : Contains(Lower(name), p)
    \/ SonyReader(Lower(name))

VolumeNames == { <<"K","o","b","o">>, <<"N","O","O","K","2">>, <<"u","s","b">> }

Volumes == [name : VolumeNames, is_dir : BOOLEAN, statvfs : BOOLEAN]

VolumeLists == SeqsUpTo(Volumes, MaxVolumes)

AbsentDir == [state |-> "absent", vols |-> <<>>]

UnreadableDir == [state |-> "unreadable", vols |-> <<>>]

Dirs == {AbsentDir, UnreadableDir} \cup [state : {"ok"}, vols : VolumeLists]

NoMedia == [state |-> "absent", users |-> <<>>]

MediaDirs ==
    {NoMedia, [state |-> "unreadable", users |-> <<>>]}
        \cup [state : {"ok"}, users : SeqsUpTo(Dirs, MaxUsers)]

\* try: usage = os.statvfs(...) / shutil.disk_usage(...) except OSError: free = 0
FreeSpace(vol) == IF vol.statvfs THEN 1 ELSE 0

DetectedDevice(vol) == [name |-> vol.name, free_space_bytes |-> FreeSpace(vol)]

\* The loop over search_roots of _detect_linux and over /Volumes of
\* _detect_macos: entries that are no directory are skipped, the others are
\* kept when a pattern matches their name.
ScanVolumes(vols) ==
    LET hits == SelectSeq(vols, LAMBDA v : v.is_dir /\ IsEreader(v.name))
    IN  [i \in 1..Len(hits) |-> DetectedDevice(hits[i])]

RECURSIVE ExtendAll(_)
\* search_roots.extend(user_dir.iterdir()) for each user_dir that is a
\* directory, in listing order.
ExtendAll(users) ==
    IF users = <<>> THEN <<>>
    ELSE (IF Head(users).state = "ok" THEN Head(users).vols ELSE <<>>)
             \o ExtendAll(Tail(users))

\* media.iterdir() raises when /media cannot be listed, and
\* user_dir.iterdir() raises when a directory under /media cannot be listed.
MediaRaises(media) ==
    \/ media.state = "unreadable"
    \/ /\ media.state = "ok"
       /\ \E i \in 1..Len(media.users) : media.users[i].state = "unreadable"

\* One line of the wmic listing after line.split(): caption, free space and
\* volume name; the fallback writes the same three columns.
DriveLine(vol) == <<"E:", "0", vol.name>>

DetectInit ==
    /\ dpc = "idle"
    /\ dSystem \in {"Darwin", "Linux", "Windows", "Java"}
    /\ dMedia \in (IF dSystem = "Linux" THEN MediaDirs ELSE {NoMedia})
    /\ dMnt \in (IF dSystem = "Linux" THEN Dirs ELSE {AbsentDir})
    /\ dVolumes \in (IF dSystem = "Darwin" THEN Dirs ELSE {AbsentDir})
    /\ dDrives \in (IF dSystem = "Windows" THEN VolumeLists ELSE {<<>>})
    /\ dWmic \in (IF dSystem = "Windows" THEN {"ok", "fails"} ELSE {"ok"})
    /\ dRoots = <<>>
    /\ dDevices = <<>>
    /\ dError = "none"

DetectIdle ==
    /\ dpc = "off"
    /\ dSystem = "Java"
    /\ dMedia = NoMedia
    /\ dMnt = AbsentDir
    /\ dVolumes = AbsentDir
    /\ dDrives = <<>>
    /\ dWmic = "ok"
    /\ dRoots = <<>>
    /\ dDevices = <<>>
    /\ dError = "none"

\* detect_ereaders: dispatch on platform.system().
DetectEreaders ==
    /\ dpc = "idle"
    /\ dpc' = CASE dSystem = "Darwin"  -> "macos"
                [] dSystem = "Linux"   -> "linux"
                [] dSystem = "Windows" -> "windows"
                [] OTHER               -> "returned"
    /\ UNCHANGED <<dSystem, dMedia, dMnt, dVolumes, dDrives, dWmic, dRoots,
                   dDevices, dError>>

\* _detect_macos: no handler surrounds volumes_dir.iterdir().
DetectMacos ==
    /\ dpc = "macos"
    /\ IF dVolumes.state = "absent"
       THEN dpc' = "returned" /\ UNCHANGED <<dDevices, dError>>
       ELSE IF dVolumes.state = "unreadable"
       THEN dpc' = "raised" /\ dError' = "PermissionError"
            /\ UNCHANGED dDevices
       ELSE dpc' = "returned" /\ dDevices' = ScanVolumes(dVolumes.vols)
            /\ UNCHANGED dError
    /\ UNCHANGED <<dSystem, dMedia, dMnt, dVolumes, dDrives, dWmic, dRoots>>

\* _detect_linux up to the scan: search_roots is collected from /media/<user>
\* and /mnt, and no handler surrounds the three iterdir() calls.
DetectLinuxRoots ==
    /\ dpc = "linux"
    /\ IF MediaRaises(dMedia) \/ dMnt.state = "unreadable"
       THEN dpc' = "raised" /\ dError' = "PermissionError"
            /\ UNCHANGED dRoots
       ELSE dpc' = "linux_scan"
            /\ dRoots' = ExtendAll(dMedia.users) \o dMnt.vols
            /\ UNCHANGED dError
    /\ UNCHANGED <<dSystem, dMedia, dMnt, dVolumes, dDrives, dWmic, dDevices>>

\* _detect_linux: for vol in search_roots.
DetectLinuxScan ==
    /\ dpc = "linux_scan"
    /\ dpc' = "returned"
    /\ dDevices' = ScanVolumes(dRoots)
    /\ UNCHANGED <<dSystem, dMedia, dMnt, dVolumes, dDrives, dWmic, dRoots,
                   dError>>

\* _detect_windows up to the scan: the wmic listing, or on any exception the
\* drives that os.path.isdir accepts.
DetectWindowsList ==
    /\ dpc = "windows"
    /\ dpc' = "windows_scan"
    /\ dRoots' = IF dWmic = "ok" THEN dDrives
                 ELSE SelectSeq(dDrives, LAMBDA v : v.is_dir)
    /\ UNCHANGED <<dSystem, dMedia, dMnt, dVolumes, dDrives, dWmic, dDevices,
                   dError>>

\* _detect_windows: for line in lines; a drive is kept when a pattern
\* matches its volume name, whether or not the path is a directory.
DetectWindowsScan ==
    /\ dpc = "windows_scan"
    /\ dpc' = "returned"
    /\ dDevices' =
           LET hits == SelectSeq(dRoots,
                           LAMBDA v : /\ Len(DriveLine(v)) >= 2
                                      /\ IsEreader(DriveLine(v)[3]))
           IN  [i \in 1..Len(hits) |-> DetectedDevice(hits[i])]
    /\ UNCHANGED <<dSystem, dMedia, dMnt, dVolumes, dDrives, dWmic, dRoots,
                   dError>>

(***************************************************************************)
(* _load_config (gui.py and main.py).  The configuration file is an input: *)
(* missing, present but not openable, not JSON, or a JSON value.  A JSON   *)
(* value has a kind and items: the members of an object, the elements of a *)
(* list (two-element lists or numbers) or the characters of a string.      *)
(***************************************************************************)
GuiDefaults ==
    [k \in {"api_keys_file", "default_export_directory",
            "cover_search_results", "cover_page_size", "cover_dpi",
            "thumbnail_size", "max_concurrent_downloads"} |->
        CASE k = "api_keys_file"            -> "api_keys.json"
          [] k = "default_export_directory" -> ""
          [] k = "cover_search_results"     -> "8"
          [] k = "cover_page_size"          -> "A4"
          [] k = "cover_dpi"                -> "300"
          [] k = "thumbnail_size"           -> "[150, 200]"
          [] k = "max_concurrent_downloads" -> "4"]

MainDefaults ==
    [k \in {"api_keys_file", "log_level", "log_file"} |->
        CASE k = "api_keys_file" -> "api_keys.json"
          [] k = "log_level"     -> "INFO"
          [] k = "log_file"      -> "ebook_coverinjektor.log"]

ConfigDefaults(loader) == IF loader = "gui" THEN GuiDefaults ELSE MainDefaults

ConfigKeys == {"api_keys_file", "cover_dpi", "theme"}

ConfigVals == {"other.json", "600"}

Pairs == [kind : {"pair"}, key : ConfigKeys, val : ConfigVals]

NumberItem == [kind |-> "number", key |-> "", val |-> ""]

CharItem == [kind |-> "char", key |-> "", val |-> ""]

NoConfigFile == [state |-> "missing", kind |-> "none", items |-> <<>>]

ConfigFiles ==
    {NoConfigFile,
     [state |-> "unreadable", kind |-> "none", items |-> <<>>],
     [state |-> "bad_json", kind |-> "none", items |-> <<>>]}
        \cup [state : {"json"}, kind : {"null", "number"}, items : {<<>>}]
        \cup [state : {"json"}, kind : {"string"},
              items : SeqsUpTo({CharItem}, MaxMembers)]
        \cup [state : {"json"}, kind : {"list"},
              items : SeqsUpTo(Pairs \cup {NumberItem}, MaxMembers)]
        \cup [state : {"json"}, kind : {"object"},
              items : SeqsUpTo(Pairs, MaxMembers)]

SetItem(d, k, v) == [x \in DOMAIN d \cup {k} |-> IF x = k THEN v ELSE d[x]]

RECURSIVE SetItems(_, _)
SetItems(d, items) ==
    IF items = <<>> THEN d
    ELSE SetItems(SetItem(d, Head(items).key, Head(items).val), Tail(items))

\* The exception of defaults.update(cfg), "none" when it returns: a value
\* that cannot be iterated, or an element that is no sequence, is a
\* TypeError; an element that is a sequence of another length than two (a
\* character of a string) is a ValueError.
UpdateError(cfg) ==
    IF cfg.kind \in {"null", "number"} THEN "TypeError"
    ELSE IF \E i \in 1..Len(cfg.items) : cfg.items[i].kind = "number"
    THEN "TypeError"
    ELSE IF \E i \in 1..Len(cfg.items) : cfg.items[i].kind = "char"
    THEN "ValueError"
    ELSE "none"

\* The exception that leaves the try block of _load_config, "none" when the
\* block completes.
LoadError(file) ==
    CASE file.state = "missing"    -> "FileNotFoundError"
      [] file.state = "unreadable" -> "PermissionError"
      [] file.state = "bad_json"   -> "JSONDecodeError"
      [] OTHER                     -> UpdateError(file)

\* except (FileNotFoundError, json.JSONDecodeError)
Caught(error) == error \in {"FileNotFoundError", "JSONDecodeError"}

ConfigInit ==
    /\ kpc = "idle"
    /\ kLoader \in {"gui", "main"}
    /\ kFile \in ConfigFiles
    /\ kConfig = ConfigDefaults(kLoader)
    /\ kError = "none"

ConfigIdle ==
    /\ kpc = "off"
    /\ kLoader = "gui"
    /\ kFile = NoConfigFile
    /\ kConfig = GuiDefaults
    /\ kError = "none"

\* _load_config
LoadConfig ==
    /\ kpc = "idle"
    /\ LET error == LoadError(kFile)
       IN  IF error = "none"
           THEN /\ kpc' = "returned"
                /\ kConfig' = SetItems(ConfigDefaults(kLoader), kFile.items)
                /\ UNCHANGED kError
           ELSE IF Caught(error)
           THEN /\ kpc' = "returned"
                /\ UNCHANGED <<kConfig, kError>>
           ELSE /\ kpc' = "raised"
                /\ kError' = error
                /\ UNCHANGED kConfig
    /\ UNCHANGED <<kLoader, kFile>>

(***************************************************************************)
(* gui.py: _on_generate_ai_cover, its worker, _on_ai_cover_ready and       *)
(* _on_ai_cover_error.  Generations are numbered in the order they start.  *)
(* The worker posts a callback to the UI thread with root.after(0, ...);   *)
(* the callback of the except clause reads the worker's variable exc when  *)
(* it runs, and Python unbinds exc when the except clause ends, so the     *)
(* callback and the end of the clause race.                                *)
(***************************************************************************)
Runs == 1..MaxRuns

\* generate_cover returns an image or raises.
GenerateOutcomes == {"image", "raises"}

\* What the prompt box can hold.
Prompts == {<<>>, <<" ">>, <<"a">>}

AiInit ==
    /\ gPrompt \in Prompts
    /\ gButton = "normal"
    /\ gSpinner = FALSE
    /\ gRuns = 0
    /\ gWorker = [r \in Runs |-> "none"]
    /\ gEvents = <<>>
    /\ gHandled = <<>>
    /\ gCallbackErrors = {}
    /\ gWarned = FALSE

AiIdle ==
    /\ gPrompt = <<>>
    /\ gButton = "off"
    /\ gSpinner = FALSE
    /\ gRuns = 0
    /\ gWorker = [r \in Runs |-> "none"]
    /\ gEvents = <<>>
    /\ gHandled = <<>>
    /\ gCallbackErrors = {}
    /\ gWarned = FALSE

\* The user edits the prompt box.
AiEditPrompt ==
    /\ gButton # "off"
    /\ \E text \in Prompts :
        /\ text # gPrompt
        /\ gPrompt' = text
    /\ UNCHANGED <<gButton, gSpinner, gRuns, gWorker, gEvents, gHandled,
                   gCallbackErrors, gWarned>>

\* _on_generate_ai_cover, lines 526-563; a disabled button delivers no click.
AiGenerateClick ==
    /\ gButton = "normal"
    /\ gRuns < MaxRuns
    /\ IF Strip(gPrompt) = <<>>
       THEN /\ gWarned' = TRUE
            /\ UNCHANGED <<gButton, gSpinner, gRuns, gWorker>>
       ELSE /\ gButton' = "disabled"
            /\ gSpinner' = TRUE
            /\ gRuns' = gRuns + 1
            /\ gWorker' = [gWorker EXCEPT ![gRuns + 1] = "running"]
            /\ UNCHANGED gWarned
    /\ UNCHANGED <<gPrompt, gEvents, gHandled, gCallbackErrors>>

\* _worker, lines 547-561: generate_cover ends and one callback is posted.
\* After posting from the except clause the worker is still inside it.
AiWorkerRun ==
    \E r \in Runs, outcome \in GenerateOutcomes :
        /\ gWorker[r] = "running"
        /\ IF outcome = "image"
           THEN /\ gEvents' = Append(gEvents, [run |-> r, callback |-> "ready"])
                /\ gWorker' = [gWorker EXCEPT ![r] = "ended"]
           ELSE /\ gEvents' = Append(gEvents, [run |-> r, callback |-> "error"])
                /\ gWorker' = [gWorker EXCEPT ![r] = "in_except"]
        /\ UNCHANGED <<gPrompt, gButton, gSpinner, gRuns, gHandled,
                       gCallbackErrors, gWarned>>

\* The except clause of line 560 ends: exc is unbound and the thread ends.
AiWorkerExit ==
    \E r \in Runs :
        /\ gWorker[r] = "in_except"
        /\ gWorker' = [gWorker EXCEPT ![r] = "ended"]
        /\ UNCHANGED <<gPrompt, gButton, gSpinner, gRuns, gEvents, gHandled,
                       gCallbackErrors, gWarned>>

\* _on_ai_cover_ready and _on_ai_cover_error, lines 565-580: both stop the
\* spinner and enable the button.
AiHandler(r, handler) ==
    /\ gSpinner' = FALSE
    /\ gButton' = "normal"
    /\ gHandled' = Append(gHandled, [run |-> r, handler |-> handler])
    /\ UNCHANGED gCallbackErrors

\* The UI thread runs the next posted callback.  The callback of line 561,
\* lambda: self._on_ai_cover_error(str(exc)), evaluates exc first: once the
\* except clause has ended that raises NameError and no handler runs.
AiCallback ==
    /\ gEvents # <<>>
    /\ LET e == Head(gEvents)
       IN  IF e.callback = "ready" THEN AiHandler(e.run, "ready")
           ELSE IF gWorker[e.run] = "in_except" THEN AiHandler(e.run, "error")
           ELSE /\ gCallbackErrors' = gCallbackErrors \cup {e.run}
                /\ UNCHANGED <<gButton, gSpinner, gHandled>>
    /\ gEvents' = Tail(gEvents)
    /\ UNCHANGED <<gPrompt, gRuns, gWorker, gWarned>>

(***************************************************************************)
(* gui.py: _on_search_covers, its worker and _display_thumbnails, for      *)
(* several searches started one after another.  Searches are numbered in   *)
(* the order they start; the results of search n are written n.            *)
(***************************************************************************)
Searches == 1..MaxSearches

\* The worker's try block completes, or fetch_covers or download_thumbnails
\* raises.
SearchOutcomes == {"results", "raises"}

SearchInit ==
    /\ sQuery \in {<<>>, <<" ">>, <<"a">>}
    /\ sRuns = 0
    /\ sWorker = [n \in Searches |-> "none"]
    /\ sEvents = <<>>
    /\ sCoverResults = 0
    /\ sGrid = 0
    /\ sLoading = FALSE
    /\ sWarned = FALSE

SearchIdle ==
    /\ sQuery = <<"off">>
    /\ sRuns = 0
    /\ sWorker = [n \in Searches |-> "none"]
    /\ sEvents = <<>>
    /\ sCoverResults = 0
    /\ sGrid = 0
    /\ sLoading = FALSE
    /\ sWarned = FALSE

\* _on_search_covers, lines 396-425: nothing prevents a click while earlier
\* searches are running.  _show_loading(True) empties the grid.
SearchClick ==
    /\ sQuery # <<"off">>
    /\ sRuns < MaxSearches
    /\ IF Strip(sQuery) = <<>>
       THEN /\ sWarned' = TRUE
            /\ UNCHANGED <<sRuns, sWorker, sGrid, sLoading>>
       ELSE /\ sRuns' = sRuns + 1
            /\ sWorker' = [sWorker EXCEPT ![sRuns + 1] = "running"]
            /\ sGrid' = 0
            /\ sLoading' = TRUE
            /\ UNCHANGED sWarned
    /\ UNCHANGED <<sQuery, sEvents, sCoverResults>>

\* _worker, lines 408-423: the searches' workers end in any order; each posts
\* _display_thumbnails(results), or after an exception the two callbacks of
\* the except clause.
SearchWorkerEnd ==
    \E n \in Searches, outcome \in SearchOutcomes :
        /\ sWorker[n] = "running"
        /\ sWorker' = [sWorker EXCEPT ![n] = outcome]
        /\ sEvents' = sEvents \o
               (IF outcome = "results"
                THEN <<[search |-> n, callback |-> "display"]>>
                ELSE <<[search |-> n, callback |-> "loading_off"],
                       [search |-> n, callback |-> "status"]>>)
        /\ UNCHANGED <<sQuery, sRuns, sCoverResults, sGrid, sLoading, sWarned>>

\* The UI thread runs the next posted callback.  _display_thumbnails, lines
\* 427-469, hides the loading overlay, refills the grid and sets
\* self.cover_results = results.
SearchCallback ==
    /\ sEvents # <<>>
    /\ LET e == Head(sEvents)
       IN  CASE e.callback = "display" ->
                    /\ sLoading' = FALSE
                    /\ sGrid' = e.search
                    /\ sCoverResults' = e.search
             [] e.callback = "loading_off" ->
                    /\ sLoading' = FALSE
                    /\ UNCHANGED <<sGrid, sCoverResults>>
             [] OTHER -> UNCHANGED <<sLoading, sGrid, sCoverResults>>
    /\ sEvents' = Tail(sEvents)
    /\ UNCHANGED <<sQuery, sRuns, sWorker, sWarned>>

(***************************************************************************)
(* Specifications: one per component, the other components left idle       *)
(***************************************************************************)

FetchFrame ==
    UNCHANGED <<coverVars, injectVars, exportVars, thumbVars, batchVars,
                resolveVars, uiVars, pickVars, genVars, queryVars,
                detectVars, configVars, aiVars, searchVars>>
CoverFrame ==
    UNCHANGED <<fetchVars, injectVars, exportVars, thumbVars, batchVars,
                resolveVars, uiVars, pickVars, genVars, queryVars,
                detectVars, configVars, aiVars, searchVars>>
InjectFrame ==
    UNCHANGED <<fetchVars, coverVars, exportVars, thumbVars, batchVars,
                resolveVars, uiVars, pickVars, genVars, queryVars,
                detectVars, configVars, aiVars, searchVars>>
ExportFrame ==
    UNCHANGED <<fetchVars, coverVars, injectVars, thumbVars, batchVars,
                resolveVars, uiVars, pickVars, genVars, queryVars,
                detectVars, configVars, aiVars, searchVars>>
ThumbFrame ==
    UNCHANGED <<fetchVars, coverVars, injectVars, exportVars, batchVars,
                resolveVars, uiVars, pickVars, genVars, queryVars,
                detectVars, configVars, aiVars, searchVars>>
BatchFrame ==
    UNCHANGED <<fetchVars, coverVars, injectVars, exportVars, thumbVars,
                resolveVars, uiVars, pickVars, genVars, queryVars,
                detectVars, configVars, aiVars, searchVars>>
ResolveFrame ==
    UNCHANGED <<fetchVars, coverVars, injectVars, exportVars, thumbVars,
                batchVars, uiVars, pickVars, genVars, queryVars, detectVars,
                configVars, aiVars, searchVars>>
UiFrame ==
    UNCHANGED <<fetchVars, coverVars, injectVars, exportVars, thumbVars,
                batchVars, resolveVars, pickVars, genVars, queryVars,
                detectVars, configVars, aiVars, searchVars>>
PickFrame ==
    UNCHANGED <<fetchVars, coverVars, injectVars, exportVars, thumbVars,
                batchVars, resolveVars, uiVars, genVars, queryVars,
                detectVars, configVars, aiVars, searchVars>>
GenFrame ==
    UNCHANGED <<fetchVars, coverVars, injectVars, exportVars, thumbVars,
                batchVars, resolveVars, uiVars, pickVars, queryVars,
                detectVars, configVars, aiVars, searchVars>>
QueryFrame ==
    UNCHANGED <<fetchVars, coverVars, injectVars, exportVars, thumbVars,
                batchVars, resolveVars, uiVars, pickVars, genVars,
                detectVars, configVars, aiVars, searchVars>>
DetectFrame ==
    UNCHANGED <<fetchVars, coverVars, injectVars, exportVars, thumbVars,
                batchVars, resolveVars, uiVars, pickVars, genVars, queryVars,
                configVars, aiVars, searchVars>>
ConfigFrame ==
    UNCHANGED <<fetchVars, coverVars, injectVars, exportVars, thumbVars,
                batchVars, resolveVars, uiVars, pickVars, genVars, queryVars,
                detectVars, aiVars, searchVars>>
AiFrame ==
    UNCHANGED <<fetchVars, coverVars, injectVars, exportVars, thumbVars,
                batchVars, resolveVars, uiVars, pickVars, genVars, queryVars,
                detectVars, configVars, searchVars>>
SearchFrame ==
    UNCHANGED <<fetchVars, coverVars, injectVars, exportVars, thumbVars,
                batchVars, resolveVars, uiVars, pickVars, genVars, queryVars,
                detectVars, configVars, aiVars>>

FetchNext ==
    \/ FetchStart /\ FetchFrame
    \/ SearchGoogleBooks /\ FetchFrame
    \/ SearchOpenLibrary /\ FetchFrame
    \/ MergeDedup /\ FetchFrame

FetchSpecInit ==
    /\ FetchIdle /\ CoverIdle /\ InjectIdle /\ ExportIdle /\ ThumbIdle
    /\ BatchIdle /\ ResolveIdle /\ UiIdle /\ PickIdle /\ GenIdle
    /\ QueryIdle /\ DetectIdle /\ ConfigIdle /\ AiIdle /\ SearchIdle

SpecFetch == FetchSpecInit /\ [][FetchNext]_vars

CoverNext == CreateCoverPage /\ CoverFrame

CoverSpecInit ==
    /\ FetchIdle /\ CoverIdle /\ InjectIdle /\ ExportIdle /\ ThumbIdle
    /\ BatchIdle /\ ResolveIdle /\ UiIdle /\ PickIdle /\ GenIdle
    /\ QueryIdle /\ DetectIdle /\ ConfigIdle /\ AiIdle /\ SearchIdle

SpecCover == CoverSpecInit /\ [][CoverNext]_vars

InjectNext ==
    \/ InjectStart /\ InjectFrame
    \/ InjectBuild /\ InjectFrame
    \/ InjectMakedirs /\ InjectFrame
    \/ InjectMkstemp /\ InjectFrame
    \/ InjectWrite /\ InjectFrame
    \/ InjectMove /\ InjectFrame
    \/ InjectCleanup /\ InjectFrame

InjectSpecInit ==
    /\ FetchIdle /\ CoverIdle /\ InjectInit /\ ExportIdle /\ ThumbIdle
    /\ BatchIdle /\ ResolveIdle /\ UiIdle /\ PickIdle /\ GenIdle
    /\ QueryIdle /\ DetectIdle /\ ConfigIdle /\ AiIdle /\ SearchIdle

SpecInject == InjectSpecInit /\ [][InjectNext]_vars

ExportNext == ExportPdf /\ ExportFrame

ExportSpecInit ==
    /\ FetchIdle /\ CoverIdle /\ InjectIdle /\ ExportInit /\ ThumbIdle
    /\ BatchIdle /\ ResolveIdle /\ UiIdle /\ PickIdle /\ GenIdle
    /\ QueryIdle /\ DetectIdle /\ ConfigIdle /\ AiIdle /\ SearchIdle

SpecExport == ExportSpecInit /\ [][ExportNext]_vars

ThumbNext ==
    \/ ThumbCall /\ ThumbFrame
    \/ ThumbSubmit /\ ThumbFrame
    \/ TaskStart /\ ThumbFrame
    \/ TaskFinish /\ ThumbFrame
    \/ ThumbCollect /\ ThumbFrame
    \/ ThumbCollectEnd /\ ThumbFrame
    \/ ThumbShutdown /\ ThumbFrame

ThumbSpecInit ==
    /\ FetchIdle /\ CoverIdle /\ InjectIdle /\ ExportIdle /\ ThumbInit
    /\ BatchIdle /\ ResolveIdle /\ UiIdle /\ PickIdle /\ GenIdle
    /\ QueryIdle /\ DetectIdle /\ ConfigIdle /\ AiIdle /\ SearchIdle

SpecThumb == ThumbSpecInit /\ [][ThumbNext]_vars

BatchNext ==
    \/ ProcessClick /\ BatchFrame
    \/ BatchDocument /\ BatchFrame
    \/ BatchEnd /\ BatchFrame
    \/ ShowSummary /\ BatchFrame
    \/ ClearPdfs /\ BatchFrame

BatchSpecInit ==
    /\ FetchIdle /\ CoverIdle /\ InjectIdle /\ ExportIdle /\ ThumbIdle
    /\ BatchInit /\ ResolveIdle /\ UiIdle /\ PickIdle /\ GenIdle
    /\ QueryIdle /\ DetectIdle /\ ConfigIdle /\ AiIdle /\ SearchIdle

SpecBatch == BatchSpecInit /\ [][BatchNext]_vars

ResolveNext == ResolveDestination /\ ResolveFrame

ResolveSpecInit ==
    /\ FetchIdle /\ CoverIdle /\ InjectIdle /\ ExportIdle /\ ThumbIdle
    /\ BatchIdle /\ ResolveInit /\ UiIdle /\ PickIdle /\ GenIdle
    /\ QueryIdle /\ DetectIdle /\ ConfigIdle /\ AiIdle /\ SearchIdle

SpecResolve == ResolveSpecInit /\ [][ResolveNext]_vars

UiNext ==
    \/ UiHandle /\ UiFrame
    \/ UiWorkerRun /\ UiFrame
    \/ UiCallback /\ UiFrame

UiSpecInit ==
    /\ FetchIdle /\ CoverIdle /\ InjectIdle /\ ExportIdle /\ ThumbIdle
    /\ BatchIdle /\ ResolveIdle /\ UiInit /\ PickIdle /\ GenIdle
    /\ QueryIdle /\ DetectIdle /\ ConfigIdle /\ AiIdle /\ SearchIdle

SpecUi == UiSpecInit /\ [][UiNext]_vars

PickNext ==
    \/ PickSearch /\ PickFrame
    \/ PickThumbnail /\ PickFrame
    \/ PickDisplay /\ PickFrame
    \/ PickThumbClick /\ PickFrame
    \/ PickFetchFull /\ PickFrame

PickSpecInit ==
    /\ FetchIdle /\ CoverIdle /\ InjectIdle /\ ExportIdle /\ ThumbIdle
    /\ BatchIdle /\ ResolveIdle /\ UiIdle /\ PickInit /\ GenIdle
    /\ QueryIdle /\ DetectIdle /\ ConfigIdle /\ AiIdle /\ SearchIdle

SpecPick == PickSpecInit /\ [][PickNext]_vars

GenNext ==
    \/ GenLoadKey /\ GenFrame
    \/ GenPost /\ GenFrame
    \/ GenExtract /\ GenFrame
    \/ GenDownload /\ GenFrame

GenSpecInit ==
    /\ FetchIdle /\ CoverIdle /\ InjectIdle /\ ExportIdle /\ ThumbIdle
    /\ BatchIdle /\ ResolveIdle /\ UiIdle /\ PickIdle /\ GenInit
    /\ QueryIdle /\ DetectIdle /\ ConfigIdle /\ AiIdle /\ SearchIdle

SpecGenerate == GenSpecInit /\ [][GenNext]_vars

QueryNext ==
    \/ SanitiseQuery /\ QueryFrame
    \/ SearchQuery /\ QueryFrame

QuerySpecInit ==
    /\ FetchIdle /\ CoverIdle /\ InjectIdle /\ ExportIdle /\ ThumbIdle
    /\ BatchIdle /\ ResolveIdle /\ UiIdle /\ PickIdle /\ GenIdle
    /\ QueryInit /\ DetectIdle /\ ConfigIdle /\ AiIdle /\ SearchIdle

SpecQuery == QuerySpecInit /\ [][QueryNext]_vars

DetectNext ==
    \/ DetectEreaders /\ DetectFrame
    \/ DetectMacos /\ DetectFrame
    \/ DetectLinuxRoots /\ DetectFrame
    \/ DetectLinuxScan /\ DetectFrame
    \/ DetectWindowsList /\ DetectFrame
    \/ DetectWindowsScan /\ DetectFrame

DetectSpecInit ==
    /\ FetchIdle /\ CoverIdle /\ InjectIdle /\ ExportIdle /\ ThumbIdle
    /\ BatchIdle /\ ResolveIdle /\ UiIdle /\ PickIdle /\ GenIdle
    /\ QueryIdle /\ DetectInit /\ ConfigIdle /\ AiIdle /\ SearchIdle

SpecDetect == DetectSpecInit /\ [][DetectNext]_vars

ConfigNext == LoadConfig /\ ConfigFrame

ConfigSpecInit ==
    /\ FetchIdle /\ CoverIdle /\ InjectIdle /\ ExportIdle /\ ThumbIdle
    /\ BatchIdle /\ ResolveIdle /\ UiIdle /\ PickIdle /\ GenIdle
    /\ QueryIdle /\ DetectIdle /\ ConfigInit /\ AiIdle /\ SearchIdle

SpecConfig == ConfigSpecInit /\ [][ConfigNext]_vars

AiNext ==
    \/ AiEditPrompt /\ AiFrame
    \/ AiGenerateClick /\ AiFrame
    \/ AiWorkerRun /\ AiFrame
    \/ AiWorkerExit /\ AiFrame
    \/ AiCallback /\ AiFrame

AiSpecInit ==
    /\ FetchIdle /\ CoverIdle /\ InjectIdle /\ ExportIdle /\ ThumbIdle
    /\ BatchIdle /\ ResolveIdle /\ UiIdle /\ PickIdle /\ GenIdle
    /\ QueryIdle /\ DetectIdle /\ ConfigIdle /\ AiInit /\ SearchIdle

SpecAi == AiSpecInit /\ [][AiNext]_vars

SearchNext ==
    \/ SearchClick /\ SearchFrame
    \/ SearchWorkerEnd /\ SearchFrame
    \/ SearchCallback /\ SearchFrame

SearchSpecInit ==
    /\ FetchIdle /\ CoverIdle /\ InjectIdle /\ ExportIdle /\ ThumbIdle
    /\ BatchIdle /\ ResolveIdle /\ UiIdle /\ PickIdle /\ GenIdle
    /\ QueryIdle /\ DetectIdle /\ ConfigIdle /\ AiIdle /\ SearchInit

SpecSearch == SearchSpecInit /\ [][SearchNext]_vars

\* Process & Export with the other handlers of the window running while the
\* worker iterates.
BatchUiNext ==
    \/ BatchNext
    \/ BrowsePdfs /\ BatchFrame
    \/ SearchCovers /\ BatchFrame
    \/ SelectCover /\ BatchFrame

SpecBatchUi == BatchSpecInit /\ [][BatchUiNext]_vars

\* The AI generation with the scheduling the program relies on: a started
\* worker thread runs to its end, and the Tk main loop runs every posted
\* callback.  Nothing obliges the user to click.
AiFairness ==
    /\ WF_vars(AiWorkerRun /\ AiFrame)
    /\ WF_vars(AiWorkerExit /\ AiFrame)
    /\ WF_vars(AiCallback /\ AiFrame)

LiveSpecAi == AiSpecInit /\ [][AiNext]_vars /\ AiFairness

(***************************************************************************)
(* Properties of fetch_covers (SpecFetch)                                  *)
(***************************************************************************)
\* The identity of a candidate for deduplication: its lower-cased, trimmed title.
TitleId(title) == Strip(Lower(title))

Concat == googleResults \o olResults

\* Where a candidate sits in google_results + ol_results.
PosInConcat(cr) ==
    IF cr.source = "Google Books" THEN cr.idx ELSE Len(googleResults) + cr.idx

\* C1: the list fetch_covers returns holds no two candidates with the same
\* lower-cased, trimmed title; each candidate kept is the first one of its
\* title in google_results + ol_results; the kept candidates stand in the
\* order of that concatenation; and when max_results does not cut the list
\* short, every title of the concatenation is kept.
C1_DedupKeepsFirst ==
    (fpc = "done" /\ fQuery # <<>>) =>
        /\ \A i, j \in 1..Len(fReturn) :
              i < j => /\ TitleId(fReturn[i].title) # TitleId(fReturn[j].title)
                       /\ PosInConcat(fReturn[i]) < PosInConcat(fReturn[j])
        /\ \A i \in 1..Len(fReturn) :
              /\ PosInConcat(fReturn[i]) \in 1..Len(Concat)
              /\ Concat[PosInConcat(fReturn[i])] = fReturn[i]
              /\ \A q \in 1..(PosInConcat(fReturn[i]) - 1) :
                    TitleId(Concat[q].title) # TitleId(fReturn[i].title)
        /\ fMaxResults >= Len(Concat) =>
              \A q \in 1..Len(Concat) :
                  \E i \in 1..Len(fReturn) :
                      TitleId(fReturn[i].title) = TitleId(Concat[q].title)

\* A search where Open Library repeats a Google Books title in another
\* spelling and only the Google Books candidate is returned.
C1_Witness ==
    /\ fpc = "done"
    /\ Len(fReturn) >= 1
    /\ \E g \in 1..Len(googleResults), o \in 1..Len(olResults) :
          /\ googleResults[g].title = <<"A">>
          /\ olResults[o].title = <<" ", "a">>
          /\ \E i \in 1..Len(fReturn) : fReturn[i] = googleResults[g]
          /\ \A i \in 1..Len(fReturn) : fReturn[i] # olResults[o]

\* C2: a backend that is unreachable, answers a non-2xx status, a malformed
\* body or JSON of an unexpected shape never makes fetch_covers raise; it
\* contributes no candidates and the other backend's candidates are returned.
C2_BackendFailureTolerated ==
    /\ fpc # "raised"
    /\ (fpc = "done" /\ fQuery # <<>> /\ googleResp # "ok") =>
          fReturn = PySlicePrefix(Dedup(olResults), fMaxResults)
    /\ (fpc = "done" /\ fQuery # <<>> /\ olResp # "ok") =>
          fReturn = PySlicePrefix(Dedup(googleResults), fMaxResults)

\* C20: for every integer max_results fetch_covers returns a prefix of the
\* deduplicated merged list that holds at most max_results candidates (none
\* when max_results is negative).
C20_PrefixAtMostMax ==
    (fpc = "done" /\ fQuery # <<>>) =>
        /\ Len(fReturn) <= Len(Dedup(Concat))
        /\ fReturn = SubSeq(Dedup(Concat), 1, Len(fReturn))
        /\ Len(fReturn) <= IF fMaxResults < 0 THEN 0 ELSE fMaxResults

(***************************************************************************)
(* Properties of inject_cover (SpecInject)                                 *)
(***************************************************************************)
InjectCalled == ipc \notin {"off", "idle"}

\* C3: processing never changes the source document: from the call on, the
\* file at the source path holds the content it held before the call, for
\* every output path, the source path itself included.
C3_SourceUnchanged ==
    InjectCalled => ifs[iArgs.pdf_path] = ifs0[iArgs.pdf_path]

\* C4: the merged document is written to a temporary file in the output
\* directory and is complete there before it is moved; output_path keeps the
\* file (or the absence of one) it had before the call until the move has
\* succeeded, and then holds the complete merged document; when the call has
\* raised, an exception has reached the caller and no temporary file is left.
C4_AtomicWrite ==
    InjectCalled =>
        /\ ipc # "done" => ifs[iArgs.output_path] = ifs0[iArgs.output_path]
        /\ ipc = "done" => ifs[iArgs.output_path] = iWriter /\ iWriter.complete
        /\ ipc = "move" => /\ iTmp = <<Dir(iArgs.output_path), TmpName>>
                           /\ ifs[iTmp] = iWriter
        /\ ipc = "raised" => /\ iError # "none"
                             /\ \A p \in Paths : p[2] = TmpName => ~ifs[p].exists
        /\ \A p \in Paths : (ifs[p].exists /\ ~ifs[p].complete) =>
                               (p = iTmp \/ ifs[p] = ifs0[p])

\* A call whose write failed midway over an output file that already existed.
C4_Witness ==
    /\ ipc = "raised"
    /\ iFailedAt \in {"write", "move"}
    /\ iError = "RuntimeError"
    /\ ifs0[iArgs.output_path].exists

\* C5: the output is the cover page followed by the source's pages from the
\* start index on, in order; the start index is 1 if remove_first_page is set
\* and the source has more than one page, else 0; so the output has
\* 1 + (n - start index) pages.
C5_PageOrder ==
    ipc = "done" =>
        LET src == ifs0[iArgs.pdf_path].pages
            n == Len(src)
            start == IF iArgs.remove_first_page /\ n > 1 THEN 1 ELSE 0
            out == ifs[iArgs.output_path].pages
        IN  /\ Len(out) = 1 + (n - start)
            /\ out[1].kind = "cover"
            /\ \A k \in 1..(n - start) : out[1 + k] = src[start + k]

\* A one-page source merged with remove_first_page set: the page stays.
C5_Witness ==
    /\ ipc = "done"
    /\ iArgs.remove_first_page
    /\ Len(ifs0[iArgs.pdf_path].pages) = 1
    /\ Len(ifs[iArgs.output_path].pages) = 2

\* The end-to-end scenario: a 1200 by 1600 image, an A4 page, a 3-page source,
\* remove_first_page false, the call finished.
Scenario ==
    /\ ipc = "done"
    /\ iArgs.cover_image = <<1200, 1600>>
    /\ iArgs.page_size = "A4"
    /\ ~iArgs.remove_first_page
    /\ Len(ifs0[iArgs.pdf_path].pages) = 3
    /\ iArgs.output_path # iArgs.pdf_path

ScenarioPages ==
    LET out == ifs[iArgs.output_path].pages
    IN  /\ Len(out) = 4
        /\ \A k \in 1..3 : out[1 + k] = ifs0[iArgs.pdf_path].pages[k]

\* C10 as stated: in the scenario the output has the cover and the original
\* pages in order, and the cover's drawn region spans the full page height.
C10_SpansHeight ==
    Scenario =>
        /\ ScenarioPages
        /\ ifs[iArgs.output_path].pages[1].draw_h = ifs[iArgs.output_path].pages[1].height

\* C10 amended: in the scenario the output has the cover and the original
\* pages in order, and the cover's drawn region spans the full page width and
\* is lower than the page.
C10_SpansWidth ==
    Scenario =>
        /\ ScenarioPages
        /\ ifs[iArgs.output_path].pages[1].draw_w = ifs[iArgs.output_path].pages[1].width
        /\ RLt(ifs[iArgs.output_path].pages[1].draw_h,
               ifs[iArgs.output_path].pages[1].height)

C10_Witness == Scenario /\ ifs[iArgs.output_path].pages[1].kind = "cover"

\* C17: when the source document does not exist, inject_cover raises
\* FileNotFoundError, not the RuntimeError wrapper, and the filesystem is as
\* it was: no directory, temporary file or output file has been created.
C17_MissingSourceNotFound ==
    (InjectCalled /\ ~ifs0[iArgs.pdf_path].exists) =>
        /\ ipc = "raised"
        /\ iFailedAt = "isfile"
        /\ iError = "FileNotFoundError"
        /\ ifs = ifs0
        /\ idirs = idirs0
        /\ iTmp = NoPath
        /\ \A p \in Paths : ifs[p].exists => ifs0[p].exists

\* A call on a missing source whose output directory does not exist either.
C17_Witness ==
    /\ ipc = "raised"
    /\ iError = "FileNotFoundError"
    /\ ~ifs0[iArgs.pdf_path].exists
    /\ Dir(iArgs.output_path) = "out"
    /\ "out" \notin idirs

ExportCalled == epc \in {"done", "raised"}

CopyAttempted == eError \in {"none", "CopyError"}

\* C6: the checks are made in the order source exists, destination directory
\* exists, free space, write permission, copy: the error raised is that of
\* the earliest check that fails, and the copy is attempted only when none fails.
C6_CheckOrder ==
    ExportCalled =>
        /\ eError = "SourceNotFound" <=> ~eSource.exists
        /\ eError = "DestinationNotFound" <=> (eSource.exists /\ ~eDestIsDir)
        /\ eError = "InsufficientSpace" <=>
              (eSource.exists /\ eDestIsDir /\ BelowMargin(eFree, eSource.size))
        /\ eError = "PermissionError" <=>
              (eSource.exists /\ eDestIsDir /\ ~BelowMargin(eFree, eSource.size)
               /\ ~eWritable)
        /\ CopyAttempted <=>
              (eSource.exists /\ eDestIsDir /\ ~BelowMargin(eFree, eSource.size)
               /\ eWritable)

\* A destination both too full and read-only: the space error is raised.
C6_Witness ==
    /\ epc = "raised"
    /\ eError = "InsufficientSpace"
    /\ ~eWritable
    /\ eFree < eSource.size

\* C7: with source and destination present, export_pdf raises the
\* insufficient-space error exactly when free < 1.1 * size, and attempts the
\* copy when free is exactly 1.1 * size (and the destination is writable).
C7_MarginExact ==
    (ExportCalled /\ eSource.exists /\ eDestIsDir) =>
        /\ eError = "InsufficientSpace" <=> 10 * eFree < 11 * eSource.size
        /\ (10 * eFree = 11 * eSource.size /\ eWritable) => CopyAttempted

\* C8: when export_pdf fails with a not-found, insufficient-space or
\* permission error, the destination directory holds what it held before.
C8_NoCopyOnCheckFailure ==
    (epc = "raised" /\ ~CopyAttempted) => eDest = eDest0

\* A permission error on a destination that already holds a file.
C8_Witness ==
    /\ epc = "raised"
    /\ eError = "PermissionError"
    /\ eDest0[SourceName].exists
    /\ eDest = eDest0

(***************************************************************************)
(* Properties of download_thumbnails (SpecThumb)                           *)
(***************************************************************************)
\* C11: download_thumbnails never raises; when it has returned, a candidate
\* whose download failed (or whose resize raised) has its thumbnail_image
\* unset, and every candidate whose own download succeeded has it set,
\* whatever happened to the others.
C11_FailureIsolated ==
    /\ tpc # "raised"
    /\ tError = "none"
    /\ tpc = "returned" =>
          \A i \in 1..Len(tOutcome) :
              /\ tOutcome[i] # "ok" => tSlot[i] = "unset"
              /\ tOutcome[i] = "ok" => tSlot[i] = "image"

\* A batch where one download failed, one task raised and one succeeded.
C11_Witness ==
    /\ tpc = "returned"
    /\ \E i, j, k \in 1..Len(tOutcome) :
          /\ tOutcome[i] = "download_fails" /\ tSlot[i] = "unset"
          /\ tOutcome[j] = "resize_raises" /\ tSlot[j] = "unset"
          /\ tOutcome[k] = "ok" /\ tSlot[k] = "image"

\* C12: download_thumbnails returns only after every task it submitted has
\* come to its end, whatever the order of completion; every candidate got a
\* task; and a thumbnail_image slot is only ever assigned by the task of its
\* own candidate.
C12_WaitsForAll ==
    /\ tpc = "returned" =>
          /\ \A i \in 1..Len(tStatus) : tStatus[i] \in {"finished", "raised"}
          /\ Len(tOrder) = Len(tStatus)
          /\ \A i \in 1..Len(tStatus) : \E k \in 1..Len(tOrder) : tOrder[k] = i
    /\ \A i \in 1..Len(tWriters) : tWriters[i] \subseteq {i}

\* A batch whose second task completed before its first and that returned.
C12_Witness ==
    /\ tpc = "returned"
    /\ Len(tOrder) >= 2
    /\ tOrder[1] = 2
    /\ tWriters[2] = {2}

(***************************************************************************)
(* Properties of Process & Export (SpecBatch)                              *)
(***************************************************************************)
FailedDocs == SelectSeq(bDone, LAMBDA d : d.outcome # "ok")
GoodDocs == SelectSeq(bDone, LAMBDA d : d.outcome = "ok")

\* C13: a document whose merge or delivery fails gets one error entry keyed
\* by its base name and no exported entry; the entries stand in the order of
\* the documents; in a run during which the selection is not emptied every
\* document of the batch is taken in turn, whatever the earlier ones met;
\* and the summary is shown once the loop is over, with all the entries.
C13_FailureAbortsOneDocument ==
    /\ Len(bErrors) = Len(FailedDocs)
    /\ \A k \in 1..Len(FailedDocs) :
          /\ bErrors[k].base = Basename(FailedDocs[k].path)
          /\ bErrors[k].exc = FailedDocs[k].outcome
    /\ Len(bExported) = Len(GoodDocs)
    /\ \A k \in 1..Len(GoodDocs) : bExported[k] = Basename(GoodDocs[k].path)
    /\ (bpc \in {"posted", "summary"} /\ ~bCleared) =>
          /\ Len(bDone) = Len(bBatch)
          /\ \A i \in 1..Len(bBatch) : bDone[i].path = bBatch[i]
    /\ bShown.shown <=> bpc = "summary"
    /\ bShown.shown => bShown.exported = bExported /\ bShown.errors = bErrors

\* A batch of three whose first document failed in the merge, whose second
\* failed in the delivery and whose third was exported.
C13_Witness ==
    /\ bpc = "summary"
    /\ ~bCleared
    /\ Len(bDone) = 3
    /\ bDone[1].outcome = "inject_fails"
    /\ bDone[2].outcome = "copy_fails"
    /\ bDone[3].outcome = "ok"
    /\ Len(bShown.errors) = 2
    /\ Len(bShown.exported) = 1

(***************************************************************************)
(* Properties of _resolve_destination (SpecResolve)                        *)
(***************************************************************************)
Token == Strip(rRaw)

DeviceMatches(i) ==
    Contains(Token, rDevices[i].documents_dir) \/ Contains(Token, rDevices[i].name)

\* The text after a default-directory marker, blanks around it removed.
MarkerDir == Strip(SubSeq(Token, Len(DefaultMarker) + 1, Len(Token)))

\* C16: an empty token gives none; a token that is an existing directory
\* gives that directory; otherwise the documents directory of the first
\* device in list order whose documents directory or name occurs in the
\* token; otherwise the directory after a default-directory marker if it
\* exists; otherwise none.
C16_ResolvePriority ==
    rpc = "done" =>
        /\ Token = <<>> => rResult = NoneDir
        /\ (Token # <<>> /\ Token \in rDirs) => rResult = Token
        /\ (Token # <<>> /\ Token \notin rDirs) =>
              /\ \A i \in 1..Len(rDevices) :
                    (DeviceMatches(i) /\ \A j \in 1..(i - 1) : ~DeviceMatches(j)) =>
                        rResult = rDevices[i].documents_dir
              /\ (\A i \in 1..Len(rDevices) : ~DeviceMatches(i)) =>
                    IF StartsWith(Token, DefaultMarker) /\ MarkerDir \in rDirs
                    THEN rResult = MarkerDir
                    ELSE rResult = NoneDir

\* The entry of the second of two devices, whose text also holds the first
\* device's name: the first device's documents directory is returned.
C16_Witness ==
    /\ rpc = "done"
    /\ Len(rDevices) = 2
    /\ rDevices[1] = [name |-> <<"K">>, documents_dir |-> <<"/">>]
    /\ rDevices[2] = [name |-> <<"K", "2">>, documents_dir |-> <<"/", "k">>]
    /\ rRaw = DeviceLabel(rDevices[2])
    /\ rDirs = {}
    /\ rResult = <<"/">>

(***************************************************************************)
(* Properties of the UI thread (SpecUi)                                    *)
(***************************************************************************)
\* C14: no network or disk I/O is ever done on the UI thread: every search,
\* thumbnail download, full-image download, image decode from a file, device
\* enumeration, merge and delivery runs on a worker thread.
C14_NoIoOnUiThread ==
    \A io \in uIo : io.thread = "worker"

(***************************************************************************)
(* Properties of search and selection (SpecPick)                           *)
(***************************************************************************)
\* C15: an image request to the full_url of a candidate is only made after
\* the user has selected that candidate, for the candidates of every
\* backend; no candidate's thumbnail URL is its full-resolution URL.
C15_FullImageLazy ==
    /\ \A i \in 1..Len(pResults) : pResults[i].thumbnail_url # pResults[i].full_url
    /\ \A r \in pRequests :
          \A i \in 1..Len(pResults) :
              pResults[i].full_url = r.url => i \in r.selected

(***************************************************************************)
(* Properties of generate_cover (SpecGenerate)                             *)
(***************************************************************************)
GenEnded == apc \in {"returned", "raised"}

\* C18: generate_cover ends in one of three ways: it returns a decoded
\* image; it raises ValueError because there is no credential, having made
\* no HTTP request; or it raises RuntimeError for an upstream failure, a
\* malformed response of whatever shape, or an image that cannot be fetched
\* or decoded.  No other exception escapes.
C18_ThreeOutcomes ==
    GenEnded =>
        /\ \/ apc = "returned" /\ aReturn = "image" /\ aError = "none"
           \/ apc = "raised" /\ aError = "ValueError" /\ aRequests = <<>>
           \/ apc = "raised" /\ aError = "RuntimeError"
        /\ aError = "ValueError" <=> aKeys # "key"
        /\ (aKeys = "key" /\ aResp # "url") => aError = "RuntimeError"
        /\ (aKeys = "key" /\ aResp = "url" /\ aAsset # "image") => aError = "RuntimeError"
        /\ (aKeys = "key" /\ aResp = "url" /\ aAsset = "image") => apc = "returned"

(***************************************************************************)
(* Properties of _sanitise_query (SpecQuery)                               *)
(***************************************************************************)
Matches(opener, closer) ==
    \/ opener = "(" /\ closer = ")"
    \/ opener = "[" /\ closer = "]"

\* Every bracket of s has its matching partner; stack holds the openers
\* still open, innermost first.
RECURSIVE WellNested(_, _)
WellNested(s, stack) ==
    IF s = <<>> THEN stack = <<>>
    ELSE IF Head(s) \in {"(", "["} THEN WellNested(Tail(s), <<Head(s)>> \o stack)
    ELSE IF Head(s) \in {")", "]"}
         THEN /\ stack # <<>>
              /\ Matches(Head(stack), Head(s))
              /\ WellNested(Tail(s), Tail(stack))
    ELSE WellNested(Tail(s), stack)

\* The characters of s that stand outside every group.
RECURSIVE OutsideGroups(_, _)
OutsideGroups(s, depth) ==
    IF s = <<>> THEN <<>>
    ELSE IF Head(s) \in {"(", "["} THEN OutsideGroups(Tail(s), depth + 1)
    ELSE IF Head(s) \in {")", "]"} THEN OutsideGroups(Tail(s), depth - 1)
    ELSE IF depth = 0 THEN <<Head(s)>> \o OutsideGroups(Tail(s), depth)
    ELSE OutsideGroups(Tail(s), depth)

NoBlanks(s) == SelectSeq(s, LAMBDA c : c # " ")

\* The stem of the filename with "_" and "-" turned into blanks.
QueryStem == ReplaceSeparators(Stem(qFilename))

\* C19: for a filename whose stem has properly matched brackets, the query
\* holds no bracket and nothing that stood inside a group, nested groups
\* included: apart from blanks it is the text outside every group.
C19_AnnotationsRemoved ==
    (qpc = "done" /\ WellNested(QueryStem, <<>>)) =>
        /\ \A i \in 1..Len(qQuery) : qQuery[i] \notin {"(", ")", "[", "]"}
        /\ NoBlanks(qQuery) = NoBlanks(OutsideGroups(QueryStem, 0))

(***************************************************************************)
(* Properties of detect_ereaders (SpecDetect)                              *)
(***************************************************************************)
\* C21: detect_ereaders never raises: whatever the mount points look like
\* (absent, unreadable, free-space query failing, wmic failing), the call
\* returns a list.
C21_DetectNeverRaises == dpc # "raised" /\ dError = "none"

(***************************************************************************)
(* Properties of _load_config (SpecConfig)                                 *)
(***************************************************************************)
IsObject(file) == file.state = "json" /\ file.kind = "object"

Omitted(file, k) == \A i \in 1..Len(file.items) : file.items[i].key # k

\* C22: _load_config always returns; for a file that is missing, unreadable,
\* not JSON or no JSON object it returns the defaults, and for an object
\* every default option the object omits keeps its default value.
C22_ConfigNeverAborts ==
    kpc \notin {"off", "idle"} =>
        /\ kpc = "returned"
        /\ ~IsObject(kFile) => kConfig = ConfigDefaults(kLoader)
        /\ IsObject(kFile) =>
               \A k \in DOMAIN ConfigDefaults(kLoader) :
                   Omitted(kFile, k) =>
                       /\ k \in DOMAIN kConfig
                       /\ kConfig[k] = ConfigDefaults(kLoader)[k]

(***************************************************************************)
(* Properties of the thumbnail selection (SpecPick)                        *)
(***************************************************************************)
\* C23: whenever no full-image download is in flight and the download for
\* the candidate at selected_cover_index succeeds, selected_cover_image is
\* that candidate's image, whatever the order in which the downloads of
\* earlier clicks complete.
C23_ImageOfLastClick ==
    (pFull = {} /\ pIndex # 0 /\ pFullOk[pIndex]) => pImage = pIndex

(***************************************************************************)
(* Properties of Process & Export with a live window (SpecBatchUi)         *)
(***************************************************************************)
Merged(d) == d.outcome \notin {"mkdtemp_fails", "inject_fails"}

\* C24: every document of a batch that is merged is merged with the cover
\* image that was selected when Process & Export was clicked, whatever
\* searches and selections happen while the worker runs.
C24_SameCoverForBatch ==
    \A i \in 1..Len(bDone) : Merged(bDone[i]) => bDone[i].cover = bClickCover

\* C25: when the summary is shown, the exported entries and the error
\* entries together are as many as the documents selected at the click, and
\* the progress bar stands at that total, whatever Clear and Browse PDFs did
\* while the worker ran.
C25_SummaryCountsAll ==
    bShown.shown =>
        /\ Len(bShown.exported) + Len(bShown.errors) = Len(bBatch)
        /\ bTotal = Len(bBatch)
        /\ bProgress = bTotal

\* C26: when the summary is shown, every document reported as exported is
\* at the destination as its own complete file: the file under its base name
\* was delivered from that document.
C26_ExportedFilesDistinct ==
    bShown.shown =>
        \A k \in 1..Len(GoodDocs) :
            bDest[Basename(GoodDocs[k].path)] = Delivered(GoodDocs[k].path, TRUE)

(***************************************************************************)
(* Properties of the destination list (SpecResolve)                        *)
(***************************************************************************)
\* C27: every entry that _refresh_devices offers resolves to the directory
\* it displays, for every list of detected devices and every configured
\* default directory.
C27_EntriesResolveToOwnDir ==
    rpc = "done" =>
        \A default_dir \in DirNames \cup {<<>>} :
            LET entries == RefreshEntries(rDevices, default_dir, rDirs)
            IN  \A i \in 1..Len(entries) :
                    rRaw = entries[i].text => rResult = entries[i].dir

(***************************************************************************)
(* Properties of the query shown and the query searched (SpecQuery)        *)
(***************************************************************************)
\* C28: _sanitise_query is idempotent: the query fetch_covers derives from
\* the search box, which holds the query derived from the filename, is that
\* same query.
C28_SanitiseIdempotent ==
    qpc = "searched" => qSearched = qQuery

(***************************************************************************)
(* Properties of the AI cover generation (LiveSpecAi)                      *)
(***************************************************************************)
HandlersOf(r) == SelectSeq(gHandled, LAMBDA h : h.run = r)

\* A generation is in flight from its start until one of its handlers ran.
InFlight(r) == gWorker[r] # "none" /\ HandlersOf(r) = <<>>

\* C29: at most one generation is in flight at any time; every started
\* generation eventually ends in exactly one of _on_ai_cover_ready and
\* _on_ai_cover_error; and the handler leaves the button enabled and the
\* spinner stopped.
C29_GenerationEnds ==
    /\ [](Cardinality({r \in Runs : InFlight(r)}) <= 1)
    /\ [](\A r \in Runs : Len(HandlersOf(r)) <= 1)
    /\ [][gHandled' # gHandled => (gButton' = "normal" /\ ~gSpinner')]_vars
    /\ \A r \in Runs : (gWorker[r] # "none") ~> (Len(HandlersOf(r)) = 1)

(***************************************************************************)
(* Properties of consecutive cover searches (SpecSearch)                   *)
(***************************************************************************)
\* Every started search has ended and every posted callback has run.
AllSearchesDone ==
    /\ sRuns > 0
    /\ \A n \in Searches : sWorker[n] # "running"
    /\ sEvents = <<>>

\* C30: once all searches have completed, and the most recently started one
\* returned results, the grid and cover_results hold the results of the
\* most recently started search, whichever worker finished last.
C30_LatestSearchShown ==
    (AllSearchesDone /\ sWorker[sRuns] = "results") =>
        /\ sCoverResults = sRuns
        /\ sGrid = sRuns

====
